---------------------------- MODULE Spec2Model ----------------------------
(***************************************************************************)
(* A model of the photo metadata engine of src/src/metadata_handler.py:    *)
(* the value normalizer, the EXIF encoder of edit_metadata, and the        *)
(* MetadataHandler service (read_metadata, edit_metadata and the delete    *)
(* calls) over a small file system.                                        *)
(*                                                                         *)
(* Python values are tagged records, one field name per tag, so that two   *)
(* values of different Python types are simply unequal:                    *)
(*   [t |-> "none"]                       None                             *)
(*   [t |-> "bool",  b |-> BOOLEAN]       bool                             *)
(*   [t |-> "int",   i |-> Int]           int                              *)
(*   [t |-> "float", n |-> Int, d |-> Nat] float, the exact fraction n/d   *)
(*   [t |-> "str",   s |-> Seq(code point)]   str                          *)
(*   [t |-> "bytes", b |-> Seq(0..255)]   bytes                            *)
(*   [t |-> "list",  l |-> Seq(value)]    list or tuple                    *)
(*   [t |-> "dict",  kv |-> Seq(<<key, value>>)]  dict, in insertion order *)
(*   [t |-> "raise", exc |-> STRING]      an exception leaving the call    *)
(***************************************************************************)
EXTENDS Integers, Sequences, FiniteSets, TLC

VARIABLES
    fs,          \* the file system: path -> content, or Absent
    last_error,  \* MetadataHandler.last_error
    pc,          \* position of the handler call in progress, "idle" between calls
    frame,       \* arguments and locals of the call in progress (kept after return)
    ret,         \* what the last finished call returned
    trace,       \* codec calls and phase events of the current call, in order
    ncalls,      \* number of calls started
    env,         \* which optional XMP toolkits can be imported
    nv,          \* normalizer: the raw value under normalization
    nout,        \* normalizer: _normalize_value(nv)
    nout2,       \* normalizer: _normalize_value(nout)
    npc,         \* normalizer: position
    eexisting,   \* EXIF encoder: the IFD map loaded from the file
    eupdates,    \* EXIF encoder: the edit request (metadata_updates)
    edumped,     \* EXIF encoder: the IFD map handed to piexif.dump
    epc,         \* EXIF encoder: position
    xpacket,     \* XMP encoder: the packet built from eupdates
    xdecoded,    \* XMP decoder: the map decoded from xpacket
    xpc,         \* XMP encoder and decoder: position
    tfiles,      \* templates: the files of the template directory
    tmem,        \* templates: TemplateManager.templates
    tlive,       \* templates: the names created and not deleted afterwards
    tret,        \* templates: the last call and what it returned
    tcalls,      \* templates: number of calls made
    file_queue,  \* batch: MainFrame.file_queue
    snapshot,    \* batch: list(self.file_queue), the list the loop iterates
    queue0,      \* batch: the queue as it was when the batch began
    idx,         \* batch: number of iterations completed
    bcur,        \* batch: the file whose handler call is in progress, or "none"
    handled,     \* batch: the handler calls completed, in order
    cancel,      \* batch: whether Cancel was pressed in the progress dialog
    bop,         \* batch: "apply" or "delete"
    bpc          \* batch: position

vars == <<fs, last_error, pc, frame, ret, trace, ncalls, env,
          nv, nout, nout2, npc, eexisting, eupdates, edumped, epc,
          xpacket, xdecoded, xpc, tfiles, tmem, tlive, tret, tcalls,
          file_queue, snapshot, queue0, idx, bcur, handled, cancel, bop, bpc>>

svcVars == <<fs, last_error, pc, frame, ret, trace, ncalls, env>>
normVars == <<nv, nout, nout2, npc>>
encVars == <<eexisting, eupdates, edumped, epc>>
xmpVars == <<xpacket, xdecoded, xpc>>
tplVars == <<tfiles, tmem, tlive, tret, tcalls>>
batchVars == <<file_queue, snapshot, queue0, idx, bcur, handled, cancel, bop, bpc>>

(***************************************************************************)
(* Python values                                                           *)
(***************************************************************************)
PyNone == [t |-> "none"]
PyBool(b) == [t |-> "bool", b |-> b]
PyInt(i) == [t |-> "int", i |-> i]
PyStr(s) == [t |-> "str", s |-> s]
PyBytes(b) == [t |-> "bytes", b |-> b]
PyList(l) == [t |-> "list", l |-> l]
PyDict(kv) == [t |-> "dict", kv |-> kv]
PyRaise(e) == [t |-> "raise", exc |-> e]
EmptyStr == PyStr(<< >>)

\* Python truth value testing, as used by `x or y` and `if x:`.
Truthy(v) ==
    CASE v.t = "none" -> FALSE
      [] v.t = "bool" -> v.b
      [] v.t = "int" -> v.i # 0
      [] v.t = "float" -> v.n # 0
      [] v.t = "str" -> Len(v.s) > 0
      [] v.t = "bytes" -> Len(v.b) > 0
      [] v.t = "list" -> Len(v.l) > 0
      [] v.t = "dict" -> Len(v.kv) > 0
      [] OTHER -> TRUE

\* `a or b`
PyOr(a, b) == IF Truthy(a) THEN a ELSE b

\* dict.get(k, default) on a request, a function from the keys present.
Get(d, k, default) == IF k \in DOMAIN d THEN d[k] ELSE default

RECURSIVE Flatten(_)
Flatten(ss) == IF Len(ss) = 0 THEN << >> ELSE Head(ss) \o Flatten(Tail(ss))

RECURSIVE JoinWith(_, _)
JoinWith(ss, sep) ==
    IF Len(ss) = 0 THEN << >>
    ELSE IF Len(ss) = 1 THEN ss[1]
    ELSE ss[1] \o sep \o JoinWith(Tail(ss), sep)

\* str(v) for the values an edit request carries. repr of a str inside a
\* list is the text in single quotes (for text without quotes, backslashes
\* or non-printable characters, which is all the model's requests hold).
ToStr(v) ==
    CASE v.t = "str" -> v.s
      [] v.t = "none" -> <<78, 111, 110, 101>>
      [] v.t = "bool" -> IF v.b THEN <<84, 114, 117, 101>> ELSE <<70, 97, 108, 115, 101>>
      [] v.t = "list" ->
            <<91>> \o JoinWith([i \in 1..Len(v.l) |-> <<39>> \o v.l[i].s \o <<39>>], <<44, 32>>) \o <<93>>
      [] OTHER -> << >>

(***************************************************************************)
(* Text codecs (str.encode / bytes.decode)                                 *)
(***************************************************************************)
IsSurrogate(cp) == cp >= 55296 /\ cp <= 57343

\* One code point in UTF-8; errors='replace' turns a lone surrogate into '?'.
Utf8EncodeCp(cp) ==
    IF IsSurrogate(cp) THEN <<63>>
    ELSE IF cp < 128 THEN <<cp>>
    ELSE IF cp < 2048 THEN <<192 + (cp \div 64), 128 + (cp % 64)>>
    ELSE IF cp < 65536 THEN <<224 + (cp \div 4096), 128 + ((cp \div 64) % 64), 128 + (cp % 64)>>
    ELSE <<240 + (cp \div 262144), 128 + ((cp \div 4096) % 64),
           128 + ((cp \div 64) % 64), 128 + (cp % 64)>>

\* s.encode('utf-8', errors='replace')
Utf8Encode(s) == Flatten([i \in 1..Len(s) |-> Utf8EncodeCp(s[i])])

\* One code point in UTF-16LE; errors='replace' turns a lone surrogate into '?'.
Utf16leEncodeCp(cp) ==
    IF IsSurrogate(cp) THEN <<63, 0>>
    ELSE IF cp < 65536 THEN <<cp % 256, cp \div 256>>
    ELSE LET u == cp - 65536
             hi == 55296 + (u \div 1024)
             lo == 56320 + (u % 1024)
         IN <<hi % 256, hi \div 256, lo % 256, lo \div 256>>

\* s.encode('utf-16le', errors='replace')
Utf16leEncode(s) == Flatten([i \in 1..Len(s) |-> Utf16leEncodeCp(s[i])])

(***************************************************************************)
(* The EXIF encoder of edit_metadata                                       *)
(***************************************************************************)
\* piexif tag ids
ImageDescription == 270
Make == 271
Orientation == 274
Artist == 315
Copyright == 33432
XPSubject == 40095
ExposureTime == 33434
DateTimeOriginal == 36867
UserComment == 37510

\* Tags the code never names, used as existing content of files: Software
\* (0th), MakerNote and SceneType (Exif), GPSLatitude and GPSLongitude (GPS),
\* Compression (1st).
OtherTag ==
    [ Software |-> 305, MakerNote |-> 37500, SceneType |-> 41729,
      GPSLatitude |-> 2, GPSLongitude |-> 4, Compression |-> 259 ]

\* Whitelists for camera/capture related tags to keep
keep_0th == {Make, 272, Orientation, 282, 283, 296}

keep_exif ==
    {DateTimeOriginal, 36868, 37521, 37522, 36864, ExposureTime, 33437, 37377,
     37378, 37380, 37381, 34850, 34855, 34864, 34866, 37383, 37385, 37386,
     40961, 41486, 41487, 41488, 41985, 41986, 41987, 41990, 42033, 42034,
     42036, 42037}

EmptyIfd == << >>

\* The IFD dictionary piexif.load returns for a file without an EXIF segment.
LoadedEmpty ==
    [k \in {"0th", "Exif", "GPS", "Interop", "1st", "thumbnail"} |->
        IF k = "thumbnail" THEN PyNone ELSE EmptyIfd]

\* "start with empty structure"
EmptyStructure ==
    [k \in {"0th", "Exif", "GPS", "1st", "thumbnail"} |->
        IF k = "thumbnail" THEN PyNone ELSE EmptyIfd]

\* ifd restricted to the tags of keep
Restrict(ifd, keep) == [tag \in (DOMAIN ifd) \cap keep |-> ifd[tag]]

\* d[k] = v on a dict held as a function
Put(d, k, v) == [x \in (DOMAIN d) \cup {k} |-> IF x = k THEN v ELSE d[x]]

\* dict.get(k, {}) on the IFD dictionary
GetIfd(exif_dict, k) == IF k \in DOMAIN exif_dict THEN exif_dict[k] ELSE EmptyIfd

\* "Build a new minimal exif dict": GPS kept entirely, whitelisted 0th and
\* Exif tags copied, 1st empty, thumbnail None.
PurgeMutantKeepAll(exif_dict) ==
    [k \in {"0th", "Exif", "GPS", "1st", "thumbnail"} |->
        CASE k = "GPS" -> GetIfd(exif_dict, "GPS")
          [] k = "0th" -> GetIfd(exif_dict, "0th")
          [] k = "Exif" -> GetIfd(exif_dict, "Exif")
          [] k = "1st" -> EmptyIfd
          [] OTHER -> PyNone]

Purge(exif_dict) ==
    [k \in {"0th", "Exif", "GPS", "1st", "thumbnail"} |->
        CASE k = "GPS" -> GetIfd(exif_dict, "GPS")
          [] k = "0th" -> Restrict(GetIfd(exif_dict, "0th"), keep_0th)
          [] k = "Exif" -> Restrict(GetIfd(exif_dict, "Exif"), keep_exif)
          [] k = "1st" -> EmptyIfd
          [] OTHER -> PyNone]

\* The edit fields as the EXIF phase selects them.
ExifHeadline(u) == PyOr(PyOr(Get(u, "headline", PyNone), Get(u, "title", PyNone)), EmptyStr)
ExifCreator(u) == PyOr(PyOr(Get(u, "creator", PyNone), Get(u, "authors", PyNone)), EmptyStr)
ExifRights(u) == PyOr(PyOr(Get(u, "rights", PyNone), Get(u, "copyright", PyNone)), EmptyStr)
ExifSubject(u) == Get(u, "subject", EmptyStr)
ExifDescription(u) == PyOr(PyOr(Get(u, "description", PyNone), Get(u, "comments", PyNone)), EmptyStr)
ExifDateCreated(u) == Get(u, "date_created", EmptyStr)

\* ifd with tag set to the encoded text of v when v is truthy
SetIfMutantAlways(ifd, tag, v, bytes) == Put(ifd, tag, PyBytes(bytes))

SetIf(ifd, tag, v, bytes) == IF Truthy(v) THEN Put(ifd, tag, PyBytes(bytes)) ELSE ifd

\* "Map our fields to EXIF tags where appropriate"
MapFields(base, u) ==
    LET z0 == GetIfd(base, "0th")
        z1 == SetIf(z0, ImageDescription, ExifHeadline(u), Utf8Encode(ToStr(ExifHeadline(u))))
        z2 == SetIf(z1, Artist, ExifCreator(u), Utf8Encode(ToStr(ExifCreator(u))))
        z3 == SetIf(z2, Copyright, ExifRights(u), Utf8Encode(ToStr(ExifRights(u))))
        z4 == SetIf(z3, XPSubject, ExifSubject(u), Utf16leEncode(ToStr(ExifSubject(u))))
        withZeroth == Put(base, "0th", z4)
        needExif == Truthy(ExifDescription(u)) \/ Truthy(ExifDateCreated(u))
        x0 == GetIfd(withZeroth, "Exif")
        x1 == SetIf(x0, UserComment, ExifDescription(u), Utf8Encode(ToStr(ExifDescription(u))))
        x2 == SetIf(x1, DateTimeOriginal, ExifDateCreated(u), Utf8Encode(ToStr(ExifDateCreated(u))))
    IN IF needExif THEN Put(withZeroth, "Exif", x2) ELSE withZeroth

PurgeNonCameraMutantDefaultFalse(u) == Truthy(Get(u, "purge_non_camera", PyBool(FALSE)))

\* metadata_updates.get('purge_non_camera', True)
PurgeNonCamera(u) == Truthy(Get(u, "purge_non_camera", PyBool(TRUE)))

\* The IFD dictionary edit_metadata hands to piexif.dump.
BuildExif(existing, u) ==
    MapFields(IF PurgeNonCamera(u) THEN Purge(existing) ELSE existing, u)


(***************************************************************************)
(* Paths and the file system                                               *)
(***************************************************************************)
\* Bounds of the model
MaxCalls == 2

\* A path is its stem and its suffix (Path(file_path).suffix), the suffix as
\* code points: ".jpg" is <<46, 106, 112, 103>>.
PathJpg == [stem |-> "a", suffix |-> <<46, 106, 112, 103>>]
PathPng == [stem |-> "b", suffix |-> <<46, 80, 78, 71>>]
PathOut == [stem |-> "out", suffix |-> <<46, 106, 112, 103>>]
PathDoc == [stem |-> "document", suffix |-> <<46, 112, 100, 102>>]
PathNotes == [stem |-> "notes", suffix |-> <<46, 112, 100, 102>>]
PathMissing == [stem |-> "nonexistent", suffix |-> <<46, 106, 112, 103>>]
NonePath == [stem |-> "None", suffix |-> << >>]

Paths == {PathJpg, PathPng, PathOut, PathDoc, PathNotes, PathMissing}

\* str.lower() on ASCII text
Lower(s) == [i \in 1..Len(s) |-> IF s[i] >= 65 /\ s[i] <= 90 THEN s[i] + 32 ELSE s[i]]

SUPPORTED_FORMATS ==
    { <<46, 106, 112, 103>>, <<46, 106, 112, 101, 103>>, <<46, 112, 110, 103>>,
      <<46, 116, 105, 102, 102>>, <<46, 116, 105, 102>>, <<46, 103, 105, 102>>,
      <<46, 98, 109, 112>> }

ExifWritableMutantAll == SUPPORTED_FORMATS

\* The extensions whose EXIF edit_metadata rewrites: .jpg .jpeg .tiff .tif
ExifWritable ==
    { <<46, 106, 112, 103>>, <<46, 106, 112, 101, 103>>,
      <<46, 116, 105, 102, 102>>, <<46, 116, 105, 102>> }

get_file_extension(p) == Lower(p.suffix)

is_supported(p) == get_file_extension(p) \in SUPPORTED_FORMATS

\* File content: the container format as the image library sees it ("none":
\* not an image), the pixels, the EXIF segment and the XMP packet.
Absent == [fmt |-> "absent"]
ExifNone == [st |-> "none"]
ExifUnreadable == [st |-> "unreadable"]
ExifMap(m) == [st |-> "map", m |-> m]
XmpNone == [st |-> "none"]
XmpMalformed == [st |-> "malformed"]
XmpPacket(f) == [st |-> "packet", f |-> f]

File(fmt, px, exif, xmp) == [fmt |-> fmt, px |-> px, exif |-> exif, xmp |-> xmp]

\* What a save that failed part-way leaves behind.
Truncated == File("none", "truncated", ExifNone, XmpNone)

OldValue == PyBytes(<<79>>)

\* An IFD dictionary as piexif.load returns it for a camera JPEG.
CameraExif ==
    [k \in {"0th", "Exif", "GPS", "Interop", "1st", "thumbnail"} |->
        CASE k = "0th" -> (Make :> OldValue) @@ (OtherTag.Software :> OldValue)
          [] k = "Exif" -> (ExposureTime :> OldValue) @@ (OtherTag.MakerNote :> OldValue)
          [] k = "GPS" -> (OtherTag.GPSLatitude :> OldValue)
          [] k = "1st" -> (OtherTag.Compression :> PyInt(6))
          [] k = "thumbnail" -> PyBytes(<<255, 216>>)
          [] OTHER -> EmptyIfd]

\* The same with an Exif SceneType held as an int, which piexif.load
\* produces and piexif.dump refuses.
SceneTypeExif ==
    [CameraExif EXCEPT !["Exif"] = @ @@ (OtherTag.SceneType :> PyInt(1))]

\* The fields of a packet written by an earlier edit with headline "O".
OldPacket ==
    [ Headline |-> <<79>>, CreateDate |-> << >>, description |-> << >>,
      creator |-> << >>, subject |-> << >>, rights |-> << >> ]

JpegInputs ==
    { File("JPEG", "A", ExifMap(CameraExif), XmpNone),
      File("JPEG", "A", ExifMap(SceneTypeExif), XmpMalformed),
      File("JPEG", "A", ExifUnreadable, XmpPacket(OldPacket)),
      File("none", "junk", ExifNone, XmpNone) }

PngInput == File("PNG", "B", ExifNone, XmpNone)
PdfInput == File("none", "pdf", ExifNone, XmpNone)

\* Image.open succeeds on image containers only.
ImageOpens(c) == c # Absent /\ c.fmt # "none"

\* MetadataHandler.last_error
NoError == [msg |-> "None"]
Err(msg, detail) == [msg |-> msg, detail |-> detail]
AboutPath(p) == [path |-> p]
AboutExt(e) == [ext |-> e]
AboutExc(e) == [exc |-> e]


(***************************************************************************)
(* Text helpers (str.strip, re.split)                                      *)
(***************************************************************************)
\* Unicode whitespace, as str.strip() with no argument removes it.
IsSpace(cp) ==
    \/ cp \in {9, 10, 11, 12, 13, 28, 29, 30, 31, 32, 133, 160, 5760}
    \/ (cp >= 8192 /\ cp <= 8202)
    \/ cp \in {8232, 8233, 8239, 8287, 12288}

RECURSIVE LStrip(_)
LStrip(s) == IF Len(s) > 0 /\ IsSpace(s[1]) THEN LStrip(Tail(s)) ELSE s

RECURSIVE RStrip(_)
RStrip(s) ==
    IF Len(s) > 0 /\ IsSpace(s[Len(s)]) THEN RStrip(SubSeq(s, 1, Len(s) - 1)) ELSE s

\* s.strip()
Strip(s) == RStrip(LStrip(s))

\* re.split('[...]', s) for a class seps of single characters: the pieces
\* between separators, empty pieces included.
RECURSIVE SplitEachFrom(_, _, _)
SplitEachFrom(s, seps, cur) ==
    IF Len(s) = 0 THEN <<cur>>
    ELSE IF s[1] \in seps THEN <<cur>> \o SplitEachFrom(Tail(s), seps, << >>)
    ELSE SplitEachFrom(Tail(s), seps, Append(cur, s[1]))

SplitEach(s, seps) == SplitEachFrom(s, seps, << >>)

\* The items of ss that pass the test `if p.strip()`, each stripped.
RECURSIVE StrippedNonEmpty(_)
StrippedNonEmpty(ss) ==
    IF Len(ss) = 0 THEN << >>
    ELSE IF Len(Strip(Head(ss))) > 0
         THEN <<Strip(Head(ss))>> \o StrippedNonEmpty(Tail(ss))
         ELSE StrippedNonEmpty(Tail(ss))

\* _split_items(s): [p.strip() for p in re.split('[,;]', s) if p.strip()]
_split_items(s) == StrippedNonEmpty(SplitEach(s, {44, 59}))

(***************************************************************************)
(* The XMP phase of edit_metadata, at the level of the fields it writes    *)
(***************************************************************************)
XmpHeadline(u) == PyOr(PyOr(Get(u, "headline", PyNone), Get(u, "title", PyNone)), EmptyStr)
XmpDescription(u) == PyOr(Get(u, "description", PyNone), Get(u, "comments", EmptyStr))
XmpCreator(u) == PyOr(Get(u, "creator", PyNone), Get(u, "authors", EmptyStr))
XmpRights(u) == PyOr(Get(u, "rights", PyNone), Get(u, "copyright", EmptyStr))
XmpSubject(u) == Get(u, "subject", EmptyStr)
XmpDateCreated(u) == Get(u, "date_created", EmptyStr)

\* Building the packet raises when a truthy field that is escaped or
\* stripped as text is not a str: _escape(headline), _escape(date_created),
\* _escape(description), _escape(rights), and a.strip() on the one item
\* [creator] of a creator that is not a str.
XmpBuildRaises(u) ==
    \/ \E v \in {XmpHeadline(u), XmpDateCreated(u), XmpDescription(u), XmpRights(u)} :
            Truthy(v) /\ v.t # "str"
    \/ Truthy(XmpCreator(u)) /\ XmpCreator(u).t # "str"

\* The rdf:li items of dc:subject.
XmpSubjectItems(u) ==
    LET v == XmpSubject(u)
    IN IF ~Truthy(v) THEN << >>
       ELSE IF v.t = "str" THEN _split_items(v.s)
       ELSE IF v.t = "list"
            THEN LET kept == SelectSeq(v.l, LAMBDA x : Len(Strip(ToStr(x))) > 0)
                 IN [i \in 1..Len(kept) |-> ToStr(kept[i])]
       ELSE << >>

\* What the packet of a request holds, field by field (<< >>: not emitted).
XmpFields(u) ==
    [ Headline |-> IF Truthy(XmpHeadline(u)) THEN XmpHeadline(u).s ELSE << >>,
      CreateDate |-> IF Truthy(XmpDateCreated(u)) THEN XmpDateCreated(u).s ELSE << >>,
      description |-> IF Truthy(XmpDescription(u)) THEN XmpDescription(u).s ELSE << >>,
      creator |-> IF Truthy(XmpCreator(u)) THEN _split_items(XmpCreator(u).s) ELSE << >>,
      subject |-> XmpSubjectItems(u),
      rights |-> IF Truthy(XmpRights(u)) THEN XmpRights(u).s ELSE << >> ]


(***************************************************************************)
(* read_metadata                                                           *)
(***************************************************************************)
\* The two hard failures of read_metadata, in the order the code tests them.
read_guardMutantNoExistenceCheck(p, c) ==
    IF ~is_supported(p) THEN "unsupported" ELSE "ok"

read_guard(p, c) ==
    IF c = Absent THEN "not_found"
    ELSE IF ~is_supported(p) THEN "unsupported"
    ELSE "ok"

\* _read_general_metadata: {} (and last_error) when Image.open fails.
_read_general_metadata(c) ==
    IF ImageOpens(c) THEN [format |-> c.fmt, size |-> c.px, mode |-> "RGB"] ELSE << >>

\* piexif.load(file_path) parses JPEG and TIFF containers with a readable
\* (or no) EXIF segment.
PiexifLoads(c) == c # Absent /\ c.fmt \in {"JPEG", "TIFF"} /\ c.exif.st # "unreadable"

PiexifLoad(c) == IF c.exif.st = "none" THEN LoadedEmpty ELSE c.exif.m

\* The dict-like IFDs of an IFD dictionary ('thumbnail' is bytes or None).
DictIfds(d) == (DOMAIN d) \ {"thumbnail"}

\* _read_exif at the level of the service: {} when piexif cannot parse the
\* file, otherwise one entry per tag of every IFD (the entry's name stands
\* for the resolved tag name).
_read_exif(c) ==
    IF ~PiexifLoads(c) THEN << >>
    ELSE LET d == PiexifLoad(c)
             names == UNION { { <<ifd, tag>> : tag \in DOMAIN d[ifd] } : ifd \in DictIfds(d) }
         IN [n \in names |-> d[n[1]][n[2]]]

MalformedText == "<x:xmpmeta><bad</x:xmpmeta>"

\* The flat map parsed from a well-formed packet: its non-empty fields.
ParsedPacket(f) == [k \in {x \in DOMAIN f : Len(f[x]) > 0} |-> f[k]]

\* What the environment does during _read_xmp: "normal"; XMPFiles raising
\* ("libxmp_raises"); libxmp returning no text for a packet it cannot parse
\* ("libxmp_hides_bad"); the byte scan failing to read the file ("io_error").
XmpReadChoices == {"normal", "libxmp_raises", "libxmp_hides_bad", "io_error"}

\* _read_xmp: pyxmp first, then python-xmp-toolkit, then the byte scan.
_read_xmp(c, e, n) ==
    IF c = Absent THEN << >>
    ELSE IF e.pyxmp /\ c.xmp.st = "packet" THEN ParsedPacket(c.xmp.f)
    ELSE IF e.libxmp /\ n # "libxmp_raises" /\ c.fmt # "none"
    THEN CASE c.xmp.st = "packet" -> ParsedPacket(c.xmp.f)
           [] c.xmp.st = "malformed" ->
                IF n = "libxmp_hides_bad" THEN << >> ELSE [xmp |-> MalformedText]
           [] OTHER -> << >>
    ELSE IF n = "io_error" THEN << >>
    ELSE CASE c.xmp.st = "packet" -> ParsedPacket(c.xmp.f)
           [] c.xmp.st = "malformed" -> [xmp_raw |-> MalformedText]
           [] OTHER -> << >>

\* The two decode phases of read_metadata, each in its own try block. exc
\* names the phase out of which an exception escapes ("none": neither).
ReadPhasesMutantOneTry(c, e, n, exc) ==
    [ exif |-> IF exc = "exif" THEN << >> ELSE _read_exif(c),
      xmp |-> IF exc \in {"exif", "xmp"} THEN << >> ELSE _read_xmp(c, e, n),
      err |-> CASE exc = "exif" -> <<"Error reading EXIF">>
                [] exc = "xmp" -> <<"Error reading XMP">>
                [] OTHER -> << >> ]

ReadPhases(c, e, n, exc) ==
    [ exif |-> IF exc \in {"exif", "both"} THEN << >> ELSE _read_exif(c),
      xmp |-> IF exc \in {"xmp", "both"} THEN << >> ELSE _read_xmp(c, e, n),
      err |-> CASE exc = "exif" -> <<"Error reading EXIF">>
                [] exc = "xmp" -> <<"Error reading XMP">>
                [] exc = "both" -> <<"Error reading EXIF", "Error reading XMP">>
                [] OTHER -> << >> ]

ReadExcChoices == {"none", "exif", "xmp", "both"}

\* last_error after assigning the messages of errs in order.
AfterErrors(old, errs, detail) ==
    IF Len(errs) = 0 THEN old ELSE Err(errs[Len(errs)], detail)

ReadMetadata(p, n, exc) ==
    /\ pc = "idle"
    /\ ncalls < MaxCalls
    /\ ncalls' = ncalls + 1
    /\ LET c == fs[p]
           g == read_guard(p, c)
       IN CASE g = "not_found" ->
                 /\ last_error' = Err("File not found", AboutPath(p))
                 /\ ret' = [op |-> "read", md |-> << >>]
                 /\ trace' = << >>
                 /\ frame' = [op |-> "read", file_path |-> p, guard |-> g]
            [] g = "unsupported" ->
                 /\ last_error' = Err("Unsupported file format", AboutExt(get_file_extension(p)))
                 /\ ret' = [op |-> "read", md |-> << >>]
                 /\ trace' = << >>
                 /\ frame' = [op |-> "read", file_path |-> p, guard |-> g]
            [] OTHER ->
                 LET gen == _read_general_metadata(c)
                     ph == ReadPhases(c, env, n, exc)
                     e1 == IF gen = << >>
                           THEN Err("Error reading general metadata", AboutExc("e"))
                           ELSE last_error
                 IN /\ last_error' = AfterErrors(e1, ph.err, AboutExc("e"))
                    /\ ret' = [op |-> "read",
                               md |-> [exif |-> ph.exif, iptc |-> << >>,
                                       xmp |-> ph.xmp, general |-> gen]]
                    /\ trace' = <<"general", "exif", "xmp">>
                    /\ frame' = [op |-> "read", file_path |-> p, guard |-> g,
                                 content |-> c, n |-> n, exc |-> exc]
    /\ UNCHANGED <<fs, pc, env>>


(***************************************************************************)
(* edit_metadata                                                           *)
(***************************************************************************)
\* The IFD dictionary the EXIF phase starts from: piexif.load(file_path),
\* else piexif.load of the EXIF bytes the image library holds, else the
\* empty structure.
LoadForEdit(c) == IF PiexifLoads(c) THEN PiexifLoad(c) ELSE EmptyStructure

\* piexif.dump raises ValueError on a value whose type does not fit its
\* tag: here an Exif SceneType held as an int.
Dumpable(d) ==
    LET x == GetIfd(d, "Exif")
    IN ~(OtherTag.SceneType \in DOMAIN x /\ x[OtherTag.SceneType].t = "int")

\* What the environment does to a write (img2.save, copyfile, put_xmp):
\* it succeeds ("ok"; "ok_keep_xmp": the image library also carries the
\* XMP packet of the source over), fails leaving the target as it was
\* ("fail_clean"), or fails after it started writing ("fail_partial").
WriteChoices == {"ok", "ok_keep_xmp", "fail_clean", "fail_partial"}

NoWrite == [w |-> FALSE]
Written(c) == [w |-> TRUE, c |-> c]

\* The image re-saved with the EXIF bytes of d.
Resaved(c, d, io) ==
    File("JPEG", c.px, ExifMap(d), IF io = "ok_keep_xmp" THEN c.xmp ELSE XmpNone)

\* The EXIF phase (the first try block): whether it raised, and what it
\* wrote to save_path.
ExifPhase(c, p, save, u, io) ==
    IF get_file_extension(p) \in ExifWritable
    THEN IF ~ImageOpens(c) THEN [failed |-> TRUE, out |-> NoWrite]
         ELSE LET d == BuildExif(LoadForEdit(c), u)
              IN IF ~Dumpable(d) THEN [failed |-> TRUE, out |-> NoWrite]
                 ELSE CASE io \in {"ok", "ok_keep_xmp"} ->
                              [failed |-> FALSE, out |-> Written(Resaved(c, d, io))]
                        [] io = "fail_clean" -> [failed |-> TRUE, out |-> NoWrite]
                        [] OTHER -> [failed |-> TRUE, out |-> Written(Truncated)]
    ELSE IF save # p
         THEN CASE io \in {"ok", "ok_keep_xmp"} -> [failed |-> FALSE, out |-> Written(c)]
                [] io = "fail_clean" -> [failed |-> TRUE, out |-> NoWrite]
                [] OTHER -> [failed |-> TRUE, out |-> Written(Truncated)]
         ELSE [failed |-> FALSE, out |-> NoWrite]

\* The XMP phase (the second try block) on the file at save_path: the
\* import of libxmp, the packet, XMPFiles(save_path, open_forupdate=True)
\* and put_xmp.
XmpPhase(c, u, e, io) ==
    IF ~e.libxmp \/ XmpBuildRaises(u) \/ c = Absent \/ io \notin {"ok", "ok_keep_xmp"}
    THEN [failed |-> TRUE, out |-> NoWrite]
    ELSE [failed |-> FALSE, out |-> Written([c EXCEPT !.xmp = XmpPacket(XmpFields(u))])]

\* save_path = output_path or file_path
SavePath(p, out) == IF out = NonePath THEN p ELSE out

\* Where edit_metadata goes after the EXIF phase, whatever its outcome.
AfterExifMutantAbortOnFailure(failed) == IF failed THEN "idle" ELSE "edit_xmp"

AfterExif(failed) == "edit_xmp"

\* last_error after a phase of edit_metadata: the handler of a later phase
\* assigns the same field.
RecordFailure(old, failed, msg) == IF failed THEN Err(msg, AboutExc("e")) ELSE old

\* The edit requests of the service model.
ReqEmpty == << >>
ReqHeadline == [headline |-> PyStr(<<72>>)]
ReqKeep == [description |-> PyStr(<<68>>), purge_non_camera |-> PyBool(FALSE)]
ReqCreatorList == [creator |-> PyList(<<PyStr(<<65>>), PyStr(<<66>>)>>)]

Requests == {ReqEmpty, ReqHeadline, ReqKeep, ReqCreatorList}

OutputPaths == {NonePath, PathOut}

\* edit_metadata up to the EXIF phase: the existence check and save_path.
EditBegin(p, u, out) ==
    /\ pc = "idle"
    /\ ncalls < MaxCalls
    /\ ncalls' = ncalls + 1
    /\ trace' = << >>
    /\ IF fs[p] = Absent
       THEN /\ last_error' = Err("File not found", AboutPath(p))
            /\ ret' = [op |-> "edit", ok |-> FALSE]
            /\ pc' = "idle"
            /\ frame' = [op |-> "edit", file_path |-> p, existed |-> FALSE]
       ELSE /\ pc' = "edit_exif"
            /\ frame' = [op |-> "edit", file_path |-> p, existed |-> TRUE,
                         updates |-> u, save_path |-> SavePath(p, out),
                         input |-> fs[p], before |-> fs[SavePath(p, out)],
                         exif |-> "pending", xmp |-> "pending"]
            /\ ret' = [op |-> "none"]
            /\ UNCHANGED last_error
    /\ UNCHANGED <<fs, env>>

\* The EXIF phase and its except clause.
EditExifPhase(io) ==
    /\ pc = "edit_exif"
    /\ LET r == ExifPhase(fs[frame.file_path], frame.file_path, frame.save_path,
                          frame.updates, io)
       IN /\ fs' = IF r.out.w THEN [fs EXCEPT ![frame.save_path] = r.out.c] ELSE fs
          /\ last_error' = RecordFailure(last_error, r.failed, "Error writing EXIF")
          /\ frame' = [frame EXCEPT !.exif = IF r.failed THEN "failed" ELSE "ok"]
          /\ trace' = Append(trace, IF r.failed THEN "exif_failed" ELSE "exif_ok")
          /\ pc' = AfterExif(r.failed)
    /\ UNCHANGED <<ret, ncalls, env>>

\* The XMP phase, its except clause, and `return True`.
EditXmpPhase(io) ==
    /\ pc = "edit_xmp"
    /\ LET r == XmpPhase(fs[frame.save_path], frame.updates, env, io)
       IN /\ fs' = IF r.out.w THEN [fs EXCEPT ![frame.save_path] = r.out.c] ELSE fs
          /\ last_error' = RecordFailure(last_error, r.failed, "Error writing XMP")
          /\ frame' = [frame EXCEPT !.xmp = IF r.failed THEN "failed" ELSE "ok"]
          /\ trace' = Append(trace, IF r.failed THEN "xmp_failed" ELSE "xmp_ok")
    /\ ret' = [op |-> "edit", ok |-> TRUE]
    /\ pc' = "idle"
    /\ UNCHANGED <<ncalls, env>>

(***************************************************************************)
(* The service specification                                               *)
(***************************************************************************)
NormIdle == nv = PyNone /\ nout = PyNone /\ nout2 = PyNone /\ npc = "off"
EncIdle == eexisting = << >> /\ eupdates = << >> /\ edumped = << >> /\ epc = "off"
XmpIdle == xpacket = << >> /\ xdecoded = << >> /\ xpc = "off"
TplIdle == tfiles = << >> /\ tmem = {} /\ tlive = {} /\ tret = << >> /\ tcalls = 0
BatchIdle ==
    /\ file_queue = << >> /\ snapshot = << >> /\ queue0 = << >> /\ idx = 0
    /\ bcur = "none" /\ handled = << >> /\ cancel = FALSE /\ bop = "none" /\ bpc = "off"

Init ==
    /\ \E j \in JpegInputs :
          fs = [p \in Paths |->
                  CASE p = PathJpg -> j
                    [] p = PathPng -> PngInput
                    [] p = PathNotes -> PdfInput
                    [] OTHER -> Absent]
    /\ last_error = NoError
    /\ pc = "idle"
    /\ frame = [op |-> "none"]
    /\ ret = [op |-> "none"]
    /\ trace = << >>
    /\ ncalls = 0
    /\ env \in [pyxmp : BOOLEAN, libxmp : BOOLEAN]
    /\ NormIdle
    /\ EncIdle
    /\ XmpIdle
    /\ TplIdle
    /\ BatchIdle

Next ==
    \/ /\ \E p \in Paths, n \in XmpReadChoices, exc \in ReadExcChoices : ReadMetadata(p, n, exc)
       /\ UNCHANGED <<normVars, encVars, xmpVars, tplVars, batchVars>>
    \/ /\ \E p \in Paths, u \in Requests, out \in OutputPaths : EditBegin(p, u, out)
       /\ UNCHANGED <<normVars, encVars, xmpVars, tplVars, batchVars>>
    \/ /\ \E io \in WriteChoices : EditExifPhase(io)
       /\ UNCHANGED <<normVars, encVars, xmpVars, tplVars, batchVars>>
    \/ /\ \E io \in WriteChoices : EditXmpPhase(io)
       /\ UNCHANGED <<normVars, encVars, xmpVars, tplVars, batchVars>>

Spec == Init /\ [][Next]_vars


(***************************************************************************)
(* Properties of the service                                               *)
(***************************************************************************)
EditReturned == pc = "idle" /\ frame.op = "edit" /\ frame.existed

\* C1: in edit_metadata on an existing file the EXIF phase has finished
\* (ok or failed) before the XMP phase starts, and every such call that
\* returns has attempted the XMP phase, also after a failed EXIF phase.
C1_ExifThenXmpAlways ==
    /\ pc = "edit_exif" =>
          frame.exif = "pending" /\ frame.xmp = "pending" /\ trace = << >>
    /\ pc = "edit_xmp" =>
          /\ frame.exif \in {"ok", "failed"}
          /\ frame.xmp = "pending"
          /\ trace \in {<<"exif_ok">>, <<"exif_failed">>}
    /\ EditReturned =>
          /\ frame.exif \in {"ok", "failed"}
          /\ frame.xmp \in {"ok", "failed"}
          /\ Len(trace) = 2
          /\ trace[1] = (IF frame.exif = "failed" THEN "exif_failed" ELSE "exif_ok")
          /\ trace[2] = (IF frame.xmp = "failed" THEN "xmp_failed" ELSE "xmp_ok")

\* A call whose EXIF phase failed and whose XMP phase then ran and succeeded.
C1_Witness == EditReturned /\ trace = <<"exif_failed", "xmp_ok">>

\* C2: when both phases of one edit_metadata call fail, the caller still
\* sees both failures after the return: the record of the XMP failure has
\* not erased the record of the EXIF failure.
C2_BothFailuresRecorded ==
    (EditReturned /\ frame.exif = "failed" /\ frame.xmp = "failed") =>
        \E seen \in SUBSET {last_error.msg} :
            "Error writing EXIF" \in seen /\ "Error writing XMP" \in seen

\* The content at save_path is the image re-saved with the new EXIF, a byte
\* copy of the input or the untouched input (the XMP phase may have put its
\* packet into any of them).
SaveIntact(c, input, u) ==
    /\ c # Absent
    /\ \/ c.fmt = input.fmt /\ c.px = input.px /\ c.exif = input.exif
       \/ /\ ImageOpens(input)
          /\ c.fmt = "JPEG"
          /\ c.px = input.px
          /\ c.exif = ExifMap(BuildExif(LoadForEdit(input), u))

\* C3: whenever edit_metadata returns True the file at save_path exists and
\* is uncorrupted, also when the EXIF phase failed and output_path differs
\* from file_path.
C3_TrueMeansSaveIntact ==
    (EditReturned /\ ret = [op |-> "edit", ok |-> TRUE]) =>
        SaveIntact(fs[frame.save_path], frame.input, frame.updates)

ReadReturned == pc = "idle" /\ frame.op = "read"

C5_UnsupportedAlwaysReported ==
    (ReadReturned /\ ~is_supported(frame.file_path)) =>
        /\ ret = [op |-> "read", md |-> << >>]
        /\ last_error.msg = "Unsupported file format"

\* C6: in read_metadata on an existing supported file a failed EXIF decode
\* (an exception, or a segment piexif cannot parse) leaves 'exif' empty and
\* the XMP decode still runs and its result is returned; a failed XMP decode
\* leaves 'xmp' empty and the decoded 'exif' as it was.
C6_ReadPhasesIsolated ==
    (ReadReturned /\ frame.guard = "ok") =>
        LET c == frame.content
            exifRaised == frame.exc \in {"exif", "both"}
            xmpRaised == frame.exc \in {"xmp", "both"}
        IN /\ (exifRaised \/ ~PiexifLoads(c)) => ret.md.exif = << >>
           /\ ~xmpRaised => ret.md.xmp = _read_xmp(c, env, frame.n)
           /\ xmpRaised => ret.md.xmp = << >>
           /\ ~exifRaised => ret.md.exif = _read_exif(c)
           /\ trace = <<"general", "exif", "xmp">>

\* An unreadable EXIF segment, 'exif' empty, and the XMP packet decoded.
C6_Witness ==
    /\ ReadReturned
    /\ frame.guard = "ok"
    /\ frame.content.exif = ExifUnreadable
    /\ ret.md.exif = << >>
    /\ ret.md.xmp = ParsedPacket(OldPacket)

\* A failed XMP decode next to a decoded EXIF map.
C6_WitnessXmp ==
    /\ ReadReturned
    /\ frame.guard = "ok"
    /\ frame.exc = "xmp"
    /\ ret.md.xmp = << >>
    /\ ret.md.exif # << >>

\* An edit_metadata call on an existing file whose extension is supported
\* and is not one of those of the EXIF branch: .png, .gif or .bmp.
PassthroughEdit ==
    /\ frame.op = "edit"
    /\ frame.existed
    /\ get_file_extension(frame.file_path) \in
          {<<46, 112, 110, 103>>, <<46, 103, 105, 102>>, <<46, 98, 109, 112>>}

CallWithoutFailure ==
    /\ pc = "idle"
    /\ \/ /\ frame.op = "read"
          /\ frame.guard = "ok"
          /\ ImageOpens(frame.content)
          /\ frame.exc = "none"
       \/ /\ frame.op = "edit"
          /\ frame.existed
          /\ frame.exif = "ok"
          /\ frame.xmp = "ok"

\* C17: calls are stateless with respect to each other: after a call that
\* completed without any failure the handler reports no failure, whatever
\* the calls before it did.
C17_NoStaleError ==
    CallWithoutFailure => last_error = NoError

\* A read of an existing supported file whose XMP packet is malformed, on a
\* path of _read_xmp that parses the packet text (the toolkit handed the
\* text over, or the byte scan found it) and out of which nothing escaped.
MalformedPacketParsed ==
    /\ ReadReturned
    /\ frame.guard = "ok"
    /\ frame.content.xmp = XmpMalformed
    /\ frame.content.fmt # "none"
    /\ frame.exc \notin {"xmp", "both"}
    /\ frame.n \in {"normal", "libxmp_raises"}

\* C15: decoding a malformed XMP packet does not raise and returns exactly
\* the two-key map {"xmp_packet": the packet text in full, "error":
\* "xmp(parse): ..."}, on the toolkit path and on the byte-scan path.
C15_MalformedPacketShape ==
    MalformedPacketParsed =>
        /\ DOMAIN ret.md.xmp = {"xmp_packet", "error"}
        /\ ret.md.xmp["xmp_packet"] = MalformedText


(***************************************************************************)
(* The EXIF encoder on its own: every existing IFD dictionary of a small   *)
(* family against every edit request of a small family                     *)
(***************************************************************************)
\* An IFD holding the tags of present, each with the old value.
IfdOf(present) == [tag \in present |-> OldValue]

ExistingMaps ==
    { [k \in {"0th", "Exif", "GPS", "Interop", "1st", "thumbnail"} |->
          CASE k = "0th" -> IfdOf(z)
            [] k = "Exif" -> IfdOf(x)
            [] k = "GPS" -> IfdOf(g)
            [] k = "1st" -> IF th THEN IfdOf({OtherTag.Compression}) ELSE EmptyIfd
            [] k = "thumbnail" -> IF th THEN PyBytes(<<255, 216>>) ELSE PyNone
            [] OTHER -> EmptyIfd] :
        z \in SUBSET {Make, OtherTag.Software, ImageDescription},
        x \in SUBSET {ExposureTime, OtherTag.MakerNote, DateTimeOriginal},
        g \in {{}, {OtherTag.GPSLatitude}, {OtherTag.GPSLatitude, OtherTag.GPSLongitude}},
        th \in BOOLEAN }
    \cup {EmptyStructure}

\* The texts of the edit requests, with their encodings written out.
EditText ==
    [headline |-> <<72, 233>>, creator |-> <<65, 59, 66>>, rights |-> <<169>>,
     subject |-> <<99, 233>>, description |-> <<68>>, date_created |-> <<50, 48, 50, 52>>]

ExpectedBytes ==
    [ headline |-> <<72, 195, 169>>, creator |-> <<65, 59, 66>>,
      rights |-> <<194, 169>>, subject |-> <<99, 0, 233, 0>>,
      description |-> <<68>>, date_created |-> <<50, 48, 50, 52>> ]

\* A request from the choice made for each key: "absent", "empty" or "set".
Field(k, choice, text) ==
    CASE choice = "absent" -> << >>
      [] choice = "empty" -> (k :> EmptyStr)
      [] OTHER -> (k :> PyStr(text))

PurgeField(choice) ==
    CASE choice = "absent" -> << >>
      [] choice = "true" -> ("purge_non_camera" :> PyBool(TRUE))
      [] OTHER -> ("purge_non_camera" :> PyBool(FALSE))

EncRequests ==
    { PurgeField(pg) @@ Field("headline", h, EditText.headline) @@ Field("creator", c, EditText.creator)
        @@ Field("rights", r, EditText.rights) @@ Field("subject", sb, EditText.subject)
        @@ Field("description", d, EditText.description) @@ Field("date_created", dt, EditText.date_created) :
        pg \in {"absent", "true", "false"},
        h \in {"absent", "empty", "set"}, c \in {"absent", "set"},
        r \in {"absent", "set"}, sb \in {"absent", "set"},
        d \in {"absent", "empty", "set"}, dt \in {"absent", "set"} }

SvcIdle ==
    /\ fs = << >>
    /\ last_error = NoError
    /\ pc = "off"
    /\ frame = [op |-> "none"]
    /\ ret = [op |-> "none"]
    /\ trace = << >>
    /\ ncalls = 0
    /\ env = [pyxmp |-> FALSE, libxmp |-> FALSE]

InitEnc ==
    /\ eexisting \in ExistingMaps
    /\ eupdates \in EncRequests
    /\ edumped = << >>
    /\ epc = "ready"
    /\ SvcIdle
    /\ NormIdle
    /\ XmpIdle
    /\ TplIdle
    /\ BatchIdle

\* The EXIF phase from the loaded dictionary to the call of piexif.dump.
Encode ==
    /\ epc = "ready"
    /\ edumped' = BuildExif(eexisting, eupdates)
    /\ epc' = "dumped"
    /\ UNCHANGED <<eexisting, eupdates, svcVars, normVars, xmpVars, tplVars, batchVars>>

NextEnc == Encode

SpecEnc == InitEnc /\ [][NextEnc]_vars

\* The target slots of the non-empty edit fields, with the bytes each holds.
Slots0th(u) ==
    (IF Truthy(ExifHeadline(u)) THEN (ImageDescription :> ExpectedBytes.headline) ELSE << >>)
    @@ (IF Truthy(ExifCreator(u)) THEN (Artist :> ExpectedBytes.creator) ELSE << >>)
    @@ (IF Truthy(ExifRights(u)) THEN (Copyright :> ExpectedBytes.rights) ELSE << >>)
    @@ (IF Truthy(ExifSubject(u)) THEN (XPSubject :> ExpectedBytes.subject) ELSE << >>)

SlotsExif(u) ==
    (IF Truthy(ExifDescription(u)) THEN (UserComment :> ExpectedBytes.description) ELSE << >>)
    @@ (IF Truthy(ExifDateCreated(u)) THEN (DateTimeOriginal :> ExpectedBytes.date_created) ELSE << >>)

\* Every tag of ifd is a slot holding its bytes, or a tag of keep with the
\* value it has in old.
KeptOrSlot(ifd, old, keep, slots) ==
    \A tag \in DOMAIN ifd :
        \/ tag \in DOMAIN slots /\ ifd[tag] = PyBytes(slots[tag])
        \/ tag \in keep /\ tag \in DOMAIN old /\ ifd[tag] = old[tag]

\* C9: with purge_non_camera true, every 0th and Exif tag handed to the
\* codec is in the camera allow-list with its existing value or is the
\* target slot of a non-empty edit field; the GPS IFD is the existing one
\* tag for tag; the 1st IFD is empty and the thumbnail dropped; MakerNote
\* (0x927C) is never present.
C9_PurgeKeepsAllowListOnly ==
    (epc = "dumped" /\ PurgeNonCamera(eupdates)) =>
        /\ DOMAIN edumped = {"0th", "Exif", "GPS", "1st", "thumbnail"}
        /\ KeptOrSlot(edumped["0th"], eexisting["0th"], keep_0th, Slots0th(eupdates))
        /\ KeptOrSlot(edumped["Exif"], eexisting["Exif"], keep_exif, SlotsExif(eupdates))
        /\ edumped["GPS"] = eexisting["GPS"]
        /\ edumped["1st"] = EmptyIfd
        /\ edumped["thumbnail"] = PyNone
        /\ \A k \in {"0th", "Exif"} : OtherTag.MakerNote \notin DOMAIN edumped[k]

\* A purge that kept Make, dropped Software and MakerNote, kept both GPS
\* tags and dropped a thumbnail.
C9_Witness ==
    /\ epc = "dumped"
    /\ PurgeNonCamera(eupdates)
    /\ {Make, OtherTag.Software} \subseteq DOMAIN eexisting["0th"]
    /\ OtherTag.MakerNote \in DOMAIN eexisting["Exif"]
    /\ eexisting["thumbnail"] # PyNone
    /\ DOMAIN eexisting["GPS"] = {OtherTag.GPSLatitude, OtherTag.GPSLongitude}
    /\ Make \in DOMAIN edumped["0th"]
    /\ OtherTag.Software \notin DOMAIN edumped["0th"]
    /\ edumped["GPS"] = eexisting["GPS"]

\* ifd is old except at the slots, which hold their bytes.
SameExceptSlots(ifd, old, slots) ==
    /\ DOMAIN ifd = (DOMAIN old) \cup (DOMAIN slots)
    /\ \A tag \in DOMAIN ifd :
          ifd[tag] = IF tag \in DOMAIN slots THEN PyBytes(slots[tag]) ELSE old[tag]

\* C10: with purge_non_camera false, the IFD dictionary handed to the codec
\* is the existing one except at the target slots of the non-empty edit
\* fields, which hold the encoded edit values; a request whose edit fields
\* are all empty leaves it unchanged.
C10_NoPurgeChangesOnlySlots ==
    (epc = "dumped" /\ ~PurgeNonCamera(eupdates)) =>
        /\ DOMAIN edumped = DOMAIN eexisting
        /\ \A k \in (DOMAIN edumped) \ {"0th", "Exif"} : edumped[k] = eexisting[k]
        /\ SameExceptSlots(edumped["0th"], eexisting["0th"], Slots0th(eupdates))
        /\ SameExceptSlots(edumped["Exif"], eexisting["Exif"], SlotsExif(eupdates))
        /\ (Slots0th(eupdates) = << >> /\ SlotsExif(eupdates) = << >>) => edumped = eexisting

\* An edit without purge that wrote the headline over an existing
\* ImageDescription and kept Software, MakerNote and the thumbnail.
C10_Witness ==
    /\ epc = "dumped"
    /\ ~PurgeNonCamera(eupdates)
    /\ {ImageDescription, OtherTag.Software} \subseteq DOMAIN eexisting["0th"]
    /\ edumped["0th"][ImageDescription] = PyBytes(<<72, 195, 169>>)
    /\ edumped["0th"][OtherTag.Software] = OldValue
    /\ OtherTag.MakerNote \in DOMAIN edumped["Exif"]
    /\ edumped["thumbnail"] # PyNone

\* A request without purge whose fields are all empty or absent.
C10_WitnessUnchanged ==
    /\ epc = "dumped"
    /\ ~PurgeNonCamera(eupdates)
    /\ "headline" \in DOMAIN eupdates
    /\ Slots0th(eupdates) = << >>
    /\ SlotsExif(eupdates) = << >>
    /\ edumped = eexisting
    /\ OtherTag.Software \in DOMAIN edumped["0th"]


(***************************************************************************)
(* bytes.decode, strict                                                    *)
(***************************************************************************)
DecodeError == [ok |-> FALSE]
Decoded(s) == [ok |-> TRUE, s |-> s]

IsCont(b) == b >= 128 /\ b <= 191

\* The length of the UTF-8 sequence a lead byte starts, 0 for a byte that
\* cannot start one.
Utf8SeqLen(b) ==
    IF b < 128 THEN 1
    ELSE IF b >= 194 /\ b <= 223 THEN 2
    ELSE IF b >= 224 /\ b <= 239 THEN 3
    ELSE IF b >= 240 /\ b <= 244 THEN 4
    ELSE 0

\* The second byte of a sequence is in the range its lead byte allows (no
\* overlong forms, no surrogates, nothing above U+10FFFF).
Utf8SecondOk(b1, b2) ==
    CASE b1 = 224 -> b2 >= 160 /\ b2 <= 191
      [] b1 = 237 -> b2 >= 128 /\ b2 <= 159
      [] b1 = 240 -> b2 >= 144 /\ b2 <= 191
      [] b1 = 244 -> b2 >= 128 /\ b2 <= 143
      [] OTHER -> IsCont(b2)

Utf8Cp(q) ==
    CASE Len(q) = 1 -> q[1]
      [] Len(q) = 2 -> (q[1] - 192) * 64 + (q[2] - 128)
      [] Len(q) = 3 -> (q[1] - 224) * 4096 + (q[2] - 128) * 64 + (q[3] - 128)
      [] OTHER -> (q[1] - 240) * 262144 + (q[2] - 128) * 4096 + (q[3] - 128) * 64 + (q[4] - 128)

\* b.decode('utf-8')
RECURSIVE Utf8Decode(_)
Utf8Decode(b) ==
    IF Len(b) = 0 THEN Decoded(<< >>)
    ELSE LET n == Utf8SeqLen(b[1])
         IN IF n = 0 \/ Len(b) < n THEN DecodeError
            ELSE IF n >= 2 /\ ~Utf8SecondOk(b[1], b[2]) THEN DecodeError
            ELSE IF \E i \in 3..n : ~IsCont(b[i]) THEN DecodeError
            ELSE LET rest == Utf8Decode(SubSeq(b, n + 1, Len(b)))
                 IN IF rest.ok THEN Decoded(<<Utf8Cp(SubSeq(b, 1, n))>> \o rest.s)
                    ELSE DecodeError

\* The code points of a sequence of UTF-16 code units; a surrogate that is
\* not half of a pair is an error.
RECURSIVE Utf16Units(_)
Utf16Units(u) ==
    IF Len(u) = 0 THEN Decoded(<< >>)
    ELSE IF u[1] >= 55296 /\ u[1] <= 56319
    THEN IF Len(u) >= 2 /\ u[2] >= 56320 /\ u[2] <= 57343
         THEN LET rest == Utf16Units(SubSeq(u, 3, Len(u)))
              IN IF rest.ok
                 THEN Decoded(<<65536 + (u[1] - 55296) * 1024 + (u[2] - 56320)>> \o rest.s)
                 ELSE DecodeError
         ELSE DecodeError
    ELSE IF u[1] >= 56320 /\ u[1] <= 57343 THEN DecodeError
    ELSE LET rest == Utf16Units(Tail(u))
         IN IF rest.ok THEN Decoded(<<u[1]>> \o rest.s) ELSE DecodeError

\* b.decode('utf-16le'): an odd number of bytes is an error.
Utf16leDecode(b) ==
    IF Len(b) % 2 = 1 THEN DecodeError
    ELSE Utf16Units([i \in 1..(Len(b) \div 2) |-> b[2 * i - 1] + 256 * b[2 * i]])

\* b.decode('utf-16be')
Utf16beDecode(b) ==
    IF Len(b) % 2 = 1 THEN DecodeError
    ELSE Utf16Units([i \in 1..(Len(b) \div 2) |-> 256 * b[2 * i - 1] + b[2 * i]])

\* b.decode('latin-1') never fails.
Latin1Decode(b) == Decoded(b)

DecodeWith(enc, b) ==
    CASE enc = "utf-8" -> Utf8Decode(b)
      [] enc = "utf-16le" -> Utf16leDecode(b)
      [] enc = "utf-16be" -> Utf16beDecode(b)
      [] OTHER -> Latin1Decode(b)

\* The first decode that succeeds, trying the encodings in order.
RECURSIVE FirstDecode(_, _)
FirstDecode(encs, b) ==
    LET r == DecodeWith(Head(encs), b)
    IN IF r.ok \/ Len(encs) = 1 THEN r ELSE FirstDecode(Tail(encs), b)

\* s.rstrip('\x00')
RECURSIVE RStripNul(_)
RStripNul(s) ==
    IF Len(s) > 0 /\ s[Len(s)] = 0 THEN RStripNul(SubSeq(s, 1, Len(s) - 1)) ELSE s

\* re.sub(r'[\x00-\x08\x0b-\x1f\x7f]+', '', s)
RemoveControl(s) ==
    SelectSeq(s, LAMBDA c : ~((c >= 0 /\ c <= 8) \/ (c >= 11 /\ c <= 31) \/ c = 127))

\* re.split(r'[...]+', s): the pieces between runs of separators; only the
\* first and the last piece can be empty.
SplitRuns(s, seps) ==
    LET pieces == SplitEach(s, seps)
        n == Len(pieces)
        keep == {i \in 1..n : i = 1 \/ i = n \/ Len(pieces[i]) > 0}
        Pick[i \in 0..n] ==
            IF i = 0 THEN << >>
            ELSE IF i \in keep THEN Append(Pick[i - 1], pieces[i]) ELSE Pick[i - 1]
    IN Pick[n]


(***************************************************************************)
(* Floats, held as exact fractions in lowest terms                         *)
(***************************************************************************)
Abs(x) == IF x < 0 THEN -x ELSE x

RECURSIVE Gcd(_, _)
Gcd(a, b) == IF b = 0 THEN a ELSE Gcd(b, a % b)

\* The float n/d (d # 0), in lowest terms with a positive denominator.
PyFloat(n, d) ==
    LET g == Gcd(Abs(n), Abs(d))
        sg == IF d < 0 THEN -1 ELSE 1
    IN [t |-> "float", n |-> sg * (n \div g), d |-> sg * (d \div g)]

\* The number of decimal places round(x, 8) keeps, as a power of ten.
Scale8 == 100000000

\* floor(r * 10^k / d) and the remainder left, by long division (0 <= r < d).
RECURSIVE LongDiv(_, _, _, _)
LongDiv(r, d, k, acc) ==
    IF k = 0 THEN [f |-> acc, rem |-> r]
    ELSE LongDiv((r * 10) % d, d, k - 1, acc * 10 + ((r * 10) \div d))

\* round(x, 8) of a float x: the nearest multiple of 10^-8, a tie (which
\* only a binary fraction can hit exactly) going to the even one.
Round8(x) ==
    IF Scale8 % x.d = 0 THEN x
    ELSE LET q == x.n \div x.d
             ld == LongDiv(x.n % x.d, x.d, 8, 0)
             up == 2 * ld.rem > x.d \/ (2 * ld.rem = x.d /\ ld.f % 2 = 1)
         IN PyFloat(q * Scale8 + ld.f + (IF up THEN 1 ELSE 0), Scale8)

\* x + y and x / k on floats
FloatAdd(x, y) == PyFloat(x.n * y.d + y.n * x.d, x.d * y.d)
FloatDivInt(x, k) == PyFloat(x.n, x.d * k)

\* float(v) of an int or a float
AsFloat(v) == IF v.t = "int" THEN PyFloat(v.i, 1) ELSE v

\* isinstance(v, int): a bool is an int too.
IsInt(v) == v.t \in {"int", "bool"}

IntOf(v) == IF v.t = "bool" THEN (IF v.b THEN 1 ELSE 0) ELSE v.i

IsNumber(v) == v.t \in {"int", "float", "bool"}

NumFloat(v) ==
    CASE v.t = "int" -> PyFloat(v.i, 1)
      [] v.t = "bool" -> PyFloat(IF v.b THEN 1 ELSE 0, 1)
      [] OTHER -> v

\* a == b in Python: numbers by value, containers by content.
RECURSIVE PyEq(_, _)
PyEq(a, b) ==
    IF IsNumber(a) /\ IsNumber(b) THEN NumFloat(a) = NumFloat(b)
    ELSE IF a.t # b.t THEN FALSE
    ELSE CASE a.t = "list" ->
                 /\ Len(a.l) = Len(b.l)
                 /\ \A i \in 1..Len(a.l) : PyEq(a.l[i], b.l[i])
           [] a.t = "dict" ->
                 /\ Len(a.kv) = Len(b.kv)
                 /\ \A i \in 1..Len(a.kv) : \E j \in 1..Len(b.kv) :
                        PyEq(a.kv[i][1], b.kv[j][1]) /\ PyEq(a.kv[i][2], b.kv[j][2])
           [] OTHER -> a = b

(***************************************************************************)
(* _normalize_value                                                        *)
(***************************************************************************)
IsIntPairMutantBytesFirst(v) ==
    /\ v.t = "list" /\ Len(v.l) = 2 /\ \A i \in 1..2 : IsInt(v.l[i])
    /\ \E i \in 1..2 : IntOf(v.l[i]) < 0 \/ IntOf(v.l[i]) > 255

\* A list or tuple of exactly two ints.
IsIntPair(v) == v.t = "list" /\ Len(v.l) = 2 /\ \A i \in 1..2 : IsInt(v.l[i])

\* The text of a byte buffer: the first decode that succeeds among utf-8,
\* utf-16le, utf-16be and latin-1, without trailing NULs and control
\* characters.
NormalizeBytes(b) ==
    PyStr(RemoveControl(RStripNul(
        FirstDecode(<<"utf-8", "utf-16le", "utf-16be", "latin-1">>, b).s)))

\* round(num / den if den else 0, 8)
NormalizeRational(num, den) ==
    IF den # 0 THEN Round8(PyFloat(num, den)) ELSE PyInt(0)

\* An array of ints in 0..255 read as text: utf-16le, then utf-8, then
\* latin-1; text longer than two characters is split on ';', ',' and NUL.
NormalizeByteArray(ints) ==
    LET s == RemoveControl(RStripNul(
                FirstDecode(<<"utf-16le", "utf-8", "latin-1">>, ints).s))
        parts == StrippedNonEmpty(SplitRuns(s, {59, 44, 0}))
    IN IF Len(s) > 2
       THEN IF Len(parts) > 1 THEN PyList([i \in 1..Len(parts) |-> PyStr(parts[i])])
            ELSE IF Len(parts) = 1 THEN PyStr(parts[1])
            ELSE PyStr(s)
       ELSE PyStr(s)

\* num / den if den else 0, for one pair of a rational array
PairQuotient(p) ==
    IF IntOf(p.l[2]) # 0 THEN PyFloat(IntOf(p.l[1]), IntOf(p.l[2])) ELSE PyInt(0)

\* An array of pairs: three of them are degrees, minutes and seconds.
NormalizeRationalArray(pairs) ==
    LET floats == [i \in 1..Len(pairs) |-> PairQuotient(pairs[i])]
    IN IF Len(floats) = 3
       THEN FloatAdd(FloatAdd(AsFloat(floats[1]), FloatDivInt(AsFloat(floats[2]), 60)),
                     FloatDivInt(AsFloat(floats[3]), 3600))
       ELSE PyList(floats)

\* Can be a dict key: everything but a list and a dict.
Hashable(v) == v.t \notin {"list", "dict"}

\* d[k] = v on a dict held as its items in insertion order.
DictSet(kv, k, v) ==
    IF \E i \in 1..Len(kv) : PyEq(kv[i][1], k)
    THEN [i \in 1..Len(kv) |-> IF PyEq(kv[i][1], k) THEN <<kv[i][1], v>> ELSE kv[i]]
    ELSE Append(kv, <<k, v>>)

\* MetadataHandler._normalize_value
RECURSIVE _normalize_value(_)
_normalize_value(v) ==
    CASE v.t = "bytes" -> NormalizeBytes(v.b)
      [] v.t = "dict" ->
            LET n == Len(v.kv)
                \* {self._normalize_value(k): self._normalize_value(val) for ...}
                Build[i \in 0..n] ==
                    IF i = 0 THEN PyDict(<< >>)
                    ELSE LET acc == Build[i - 1]
                         IN IF acc.t = "raise" THEN acc
                            ELSE LET k == _normalize_value(v.kv[i][1])
                                     x == _normalize_value(v.kv[i][2])
                                 IN IF k.t = "raise" THEN k
                                    ELSE IF x.t = "raise" THEN x
                                    ELSE IF ~Hashable(k) THEN PyRaise("TypeError")
                                    ELSE PyDict(DictSet(acc.kv, k, x))
            IN Build[n]
      [] v.t = "list" ->
            IF IsIntPair(v) THEN NormalizeRational(IntOf(v.l[1]), IntOf(v.l[2]))
            ELSE IF Len(v.l) > 0 /\ \A i \in 1..Len(v.l) :
                        IsInt(v.l[i]) /\ IntOf(v.l[i]) >= 0 /\ IntOf(v.l[i]) <= 255
            THEN NormalizeByteArray([i \in 1..Len(v.l) |-> IntOf(v.l[i])])
            ELSE IF Len(v.l) > 0 /\ \A i \in 1..Len(v.l) : IsIntPair(v.l[i])
            THEN NormalizeRationalArray(v.l)
            ELSE LET elems == [i \in 1..Len(v.l) |-> _normalize_value(v.l[i])]
                 IN IF \E i \in 1..Len(elems) : elems[i].t = "raise"
                    THEN elems[CHOOSE i \in 1..Len(elems) :
                                 /\ elems[i].t = "raise"
                                 /\ \A j \in 1..(i - 1) : elems[j].t # "raise"]
                    ELSE PyList(elems)
      [] OTHER -> v

(***************************************************************************)
(* The normalizer on its own: one raw value, normalized once and then      *)
(* once more                                                               *)
(***************************************************************************)
\* The longest array of ints or of rational pairs among the raw values.
MaxLen == 3

SeqsUpTo(S, n) == UNION {[1..k -> S] : k \in 1..n}

\* The raw values of the check: ints, byte buffers, text and None; arrays of
\* ints, as piexif gives for BYTE and SHORT tags; rational pairs (num, den),
\* zero denominators among them; arrays of rational pairs; nested lists of
\* mixed shapes; maps keyed by ints, text, byte buffers and tuples (pairs,
\* arrays).
RawValues ==
    LET RawInts == {0, 1, 3, 65, 300}
        RawBytes == {<< >>, <<72, 105>>, <<65, 0>>, <<65, 0, 59, 0, 66, 0>>,
                     <<195, 169>>, <<255>>, <<72, 105, 0, 0>>}
        RawStrs == {<< >>, <<72, 105>>}
        RawArrayInts == {0, 59, 65, 300}
        RawIntArrays ==
            {PyList([i \in 1..Len(a) |-> PyInt(a[i])]) : a \in SeqsUpTo(RawArrayInts, MaxLen)}
        RawPairs == {PyList(<<PyInt(n), PyInt(d)>>) : n \in {0, 1, 7}, d \in {0, 1, 3, 4}}
        RawRationalArrays ==
            {PyList(a) : a \in SeqsUpTo({PyList(<<PyInt(n), PyInt(d)>>) :
                                            n \in {1, 30}, d \in {0, 1, 7}}, MaxLen)}
        RawLeaves ==
            {PyInt(i) : i \in RawInts} \cup {PyBytes(b) : b \in RawBytes}
                \cup {PyStr(x) : x \in RawStrs} \cup {PyNone}
        RawElems ==
            {PyInt(3), PyInt(300), PyBytes(<<72, 105>>), PyStr(<<72, 105>>),
             PyList(<<PyInt(1), PyInt(0)>>), PyList(<<PyInt(1), PyInt(4)>>),
             PyList(<<PyInt(65), PyInt(0), PyInt(66)>>),
             PyList(<<PyList(<<PyInt(1), PyInt(0)>>), PyList(<<PyInt(30), PyInt(1)>>)>>)}
        RawLists == {PyList(a) : a \in SeqsUpTo(RawElems, 2)}
        RawKeys ==
            {PyInt(271), PyStr(<<72, 105>>), PyBytes(<<72, 105>>),
             PyList(<<PyInt(1), PyInt(4)>>), PyList(<<PyInt(65), PyInt(0), PyInt(66)>>),
             PyList(<<PyInt(300), PyInt(400), PyInt(500)>>)}
        RawDicts ==
            {PyDict(<< >>)} \cup {PyDict(<<<<k, x>>>>) : k \in RawKeys, x \in RawElems}
                \cup {PyDict(<<<<PyInt(0), PyDict(<<<<k, x>>>>)>>>>) :
                          k \in RawKeys, x \in {PyInt(3)}}
                \cup {PyDict(<<<<k1, PyInt(1)>>, <<k2, PyInt(3)>>>>) :
                          k1 \in {PyStr(<<72, 105>>)}, k2 \in RawKeys \ {PyStr(<<72, 105>>)}}
    IN RawLeaves \cup RawIntArrays \cup RawPairs \cup RawRationalArrays
           \cup RawLists \cup RawDicts

InitNorm ==
    /\ SvcIdle
    /\ EncIdle
    /\ XmpIdle
    /\ TplIdle
    /\ BatchIdle
    /\ nv \in RawValues
    /\ nout = PyNone
    /\ nout2 = PyNone
    /\ npc = "ready"

\* out = handler._normalize_value(v)
Normalize ==
    /\ npc = "ready"
    /\ nout' = _normalize_value(nv)
    /\ npc' = "once"
    /\ UNCHANGED <<nv, nout2, svcVars, encVars, xmpVars, tplVars, batchVars>>

\* again = handler._normalize_value(out), when the first call returned
NormalizeAgain ==
    /\ npc = "once"
    /\ nout.t # "raise"
    /\ nout2' = _normalize_value(nout)
    /\ npc' = "twice"
    /\ UNCHANGED <<nv, nout, svcVars, encVars, xmpVars, tplVars, batchVars>>

NextNorm == Normalize \/ NormalizeAgain

SpecNorm == InitNorm /\ [][NextNorm]_vars

\* C7: normalization is idempotent: normalizing an already normalized value
\* gives an equal value, zero-denominator pairs and arrays included.
C7_NormalizeIdempotent ==
    npc = "twice" => nout2.t # "raise" /\ PyEq(nout2, nout)

\* C8: normalization is total: _normalize_value returns a value and never
\* raises, whatever the raw value, maps keyed by byte buffers, pairs or
\* arrays included.
C8_NormalizeNeverRaises ==
    npc = "once" => nout.t # "raise"

\* C21: a list or tuple of exactly two integers normalizes to one number,
\* round(num / den, 8) when den is not 0 and 0 when it is, also when both
\* integers lie in 0..255: the pair is never decoded as text.
C21_PairIsRational ==
    (/\ npc = "once"
     /\ nv.t = "list"
     /\ Len(nv.l) = 2
     /\ nv.l[1].t = "int"
     /\ nv.l[2].t = "int") =>
        LET num == nv.l[1].i
            den == nv.l[2].i
        IN IF den = 0 THEN nout = PyInt(0)
           ELSE /\ nout = Round8(PyFloat(num, den))
                /\ nout.t = "float"
                /\ Scale8 % nout.d = 0
                /\ nout.n \div nout.d \in {num \div den, (num \div den) + 1}

\* The pair (65, 0), whose bytes are the UTF-16LE text "A", normalized to 0.
C21_Witness ==
    /\ npc = "once"
    /\ nv = PyList(<<PyInt(65), PyInt(0)>>)
    /\ nout = PyInt(0)

\* The pair (300, 65) normalized to 4.61538462.
C21_WitnessRounded ==
    /\ npc = "once"
    /\ nv = PyList(<<PyInt(300), PyInt(65)>>)
    /\ nout = PyFloat(461538462, Scale8)

\* C22: a non-empty array of two-integer pairs normalizes by length. Each
\* pair is converted by the rational rule (rounded to 8 places, 0 for a
\* zero denominator); an array of a length other than 3 gives the list of
\* these numbers in order, and an array of 3 pairs gives deg + min/60 +
\* sec/3600 of them (compared here where the rounding leaves the three
\* components as they are).
C22_PairArrayByLength ==
    (/\ npc = "once"
     /\ nv.t = "list"
     /\ Len(nv.l) > 0
     /\ \A i \in 1..Len(nv.l) : IsIntPair(nv.l[i])) =>
        LET comp == [i \in 1..Len(nv.l) |->
                        NormalizeRational(IntOf(nv.l[i].l[1]), IntOf(nv.l[i].l[2]))]
            exact == \A i \in 1..Len(nv.l) : comp[i] = PairQuotient(nv.l[i])
        IN IF Len(nv.l) # 3 THEN nout = PyList(comp)
           ELSE exact =>
                   nout = FloatAdd(FloatAdd(AsFloat(comp[1]), FloatDivInt(AsFloat(comp[2]), 60)),
                                   FloatDivInt(AsFloat(comp[3]), 3600))


(***************************************************************************)
(* The XMP packet as text: what edit_metadata builds and what _read_xmp    *)
(* parses                                                                  *)
(***************************************************************************)
\* xml.sax.saxutils.escape(s): '&', '<' and '>' become entities; no other
\* character is changed (a double quote stays as it is).
SaxEscape(s) ==
    Flatten([i \in 1..Len(s) |->
                CASE s[i] = 38 -> <<38, 97, 109, 112, 59>>
                  [] s[i] = 60 -> <<38, 108, 116, 59>>
                  [] s[i] = 62 -> <<38, 103, 116, 59>>
                  [] OTHER -> <<s[i]>>])

\* The packet of xmp_lines: the attributes of rdf:Description and its child
\* elements in document order, each value as the literal text placed
\* between the double quotes of the attribute or inside an rdf:li.
xmp_lines(u) ==
    LET headline == XmpHeadline(u)
        date_created == XmpDateCreated(u)
        description == XmpDescription(u)
        creator == XmpCreator(u)
        rights == XmpRights(u)
        creator_items == _split_items(creator.s)
        subj_items == XmpSubjectItems(u)
        attrNames == (IF Truthy(headline) THEN {"Headline"} ELSE {})
                        \cup (IF Truthy(date_created) THEN {"CreateDate", "DateCreated"} ELSE {})
        elemNames == (IF Truthy(description) THEN {"description"} ELSE {})
                        \cup (IF Truthy(creator) THEN {"creator"} ELSE {})
                        \cup (IF Len(subj_items) > 0 THEN {"subject"} ELSE {})
                        \cup (IF Truthy(rights) THEN {"rights"} ELSE {})
    IN IF XmpBuildRaises(u) THEN PyRaise("AttributeError")
       ELSE [ t |-> "packet",
              attrs |-> [k \in attrNames |->
                            IF k = "Headline" THEN SaxEscape(headline.s)
                            ELSE SaxEscape(date_created.s)],
              elems |-> [k \in elemNames |->
                            CASE k = "description" -> <<SaxEscape(description.s)>>
                              [] k = "creator" ->
                                    [i \in 1..Len(creator_items) |->
                                        SaxEscape(Strip(creator_items[i]))]
                              [] k = "subject" ->
                                    [i \in 1..Len(subj_items) |-> SaxEscape(subj_items[i])]
                              [] OTHER -> <<SaxEscape(rights.s)>>] ]

\* The predefined entities of XML, by the text after '&'.
XmlEntities ==
    { <<<<97, 109, 112, 59>>, 38>>, <<<<108, 116, 59>>, 60>>, <<<<103, 116, 59>>, 62>>,
      <<<<113, 117, 111, 116, 59>>, 34>>, <<<<97, 112, 111, 115, 59>>, 39>> }

\* What an XML parser reads from the literal text of an attribute value
\* (inAttr) or of character data: '<' is an error, so is '&' that starts no
\* entity; in an attribute value a double quote ends the value, and the
\* rest of the literal is then read as part of the start tag, where text
\* without '=' is an error.
RECURSIVE XmlCharData(_, _)
XmlCharData(lit, inAttr) ==
    IF Len(lit) = 0 THEN Decoded(<< >>)
    ELSE IF lit[1] = 60 \/ (inAttr /\ lit[1] = 34) THEN DecodeError
    ELSE IF lit[1] = 38
    THEN LET found == {e \in XmlEntities :
                          /\ Len(lit) >= 1 + Len(e[1])
                          /\ SubSeq(lit, 2, 1 + Len(e[1])) = e[1]}
         IN IF found = {} THEN DecodeError
            ELSE LET e == CHOOSE x \in found : TRUE
                     rest == XmlCharData(SubSeq(lit, 2 + Len(e[1]), Len(lit)), inAttr)
                 IN IF rest.ok THEN Decoded(<<e[2]>> \o rest.s) ELSE DecodeError
    ELSE LET rest == XmlCharData(Tail(lit), inAttr)
             c == IF inAttr /\ lit[1] \in {9, 10, 13} THEN 32 ELSE lit[1]
         IN IF rest.ok THEN Decoded(<<c>> \o rest.s) ELSE DecodeError

\* ET.fromstring(packet_str) and the walk over rdf:Description: attributes
\* by local name, children with rdf:li as the list of their non-blank
\* trimmed texts (one text alone for title, description and rights).
ParseXmpPacket(pk) ==
    LET attrOk == \A k \in DOMAIN pk.attrs : XmlCharData(pk.attrs[k], TRUE).ok
        elemOk == \A k \in DOMAIN pk.elems : \A i \in 1..Len(pk.elems[k]) :
                      XmlCharData(pk.elems[k][i], FALSE).ok
        li_texts(k) ==
            StrippedNonEmpty([i \in 1..Len(pk.elems[k]) |-> XmlCharData(pk.elems[k][i], FALSE).s])
        withLi == {k \in DOMAIN pk.elems : Len(pk.elems[k]) > 0}
    IN IF ~(attrOk /\ elemOk) THEN [ok |-> FALSE]
       ELSE [ok |-> TRUE,
             map |-> [k \in (DOMAIN pk.attrs) \cup withLi |->
                        IF k \in withLi
                        THEN IF k \in {"title", "description", "rights"} /\ Len(li_texts(k)) = 1
                             THEN PyStr(li_texts(k)[1])
                             ELSE PyList([i \in 1..Len(li_texts(k)) |-> PyStr(li_texts(k)[i])])
                        ELSE PyStr(XmlCharData(pk.attrs[k], TRUE).s)]]

(***************************************************************************)
(* The two encoders and the XMP decoder on their own: one edit request,    *)
(* preferred and legacy keys among its fields                              *)
(***************************************************************************)
\* The edit requests of the check. Each key is absent or holds one of a few
\* values: text (with a double quote, with '<' and '&', with a leading
\* blank, with delimiters) or a pre-built list.
XmpRequests ==
    LET absent == [t |-> "absent"]
        Key(k, v) == IF v = absent THEN << >> ELSE (k :> v)
        Text(cps) == PyStr(cps)
    IN { Key("headline", h) @@ Key("title", ti) @@ Key("creator", c) @@ Key("authors", au)
           @@ Key("rights", r) @@ Key("copyright", cr) @@ Key("description", d)
           @@ Key("comments", cm) @@ Key("subject", sb) @@ Key("tags", tg)
           @@ Key("date_created", dt) :
         h \in {absent, EmptyStr, Text(<<72>>), Text(<<72, 34>>), Text(<<60, 38>>)},
         ti \in {absent, Text(<<84>>)},
         c \in {absent, Text(<<65>>), Text(<<65, 59, 66>>),
                PyList(<<Text(<<65>>), Text(<<66>>)>>)},
         au \in {absent, Text(<<85>>)},
         r \in {absent, Text(<<67>>), Text(<<32, 67>>)},
         cr \in {absent, Text(<<82>>)},
         d \in {absent, Text(<<68>>)},
         cm \in {absent, Text(<<77>>)},
         sb \in {absent, Text(<<115, 44, 116>>), PyList(<<Text(<<115>>)>>)},
         tg \in {absent, Text(<<103>>)},
         dt \in {absent, Text(<<50, 48, 50, 52>>)} }

InitXmp ==
    /\ eexisting = EmptyStructure
    /\ eupdates \in XmpRequests
    /\ edumped = << >>
    /\ epc = "ready"
    /\ xpacket = << >>
    /\ xdecoded = << >>
    /\ xpc = "ready"
    /\ SvcIdle
    /\ NormIdle
    /\ TplIdle
    /\ BatchIdle

\* The XMP phase up to the joined packet text.
XmpEncode ==
    /\ xpc = "ready"
    /\ xpacket' = xmp_lines(eupdates)
    /\ xpc' = "built"
    /\ UNCHANGED <<xdecoded, svcVars, normVars, encVars, tplVars, batchVars>>

\* _read_xmp on the packet put into the file: the parse, the raw text when
\* the parse fails, and the normalization of the values.
XmpDecode ==
    /\ xpc = "built"
    /\ xpacket.t = "packet"
    /\ LET parsed == ParseXmpPacket(xpacket)
       IN xdecoded' = IF parsed.ok
                      THEN [k \in DOMAIN parsed.map |-> _normalize_value(parsed.map[k])]
                      ELSE [xmp_raw |-> xpacket]
    /\ xpc' = "decoded"
    /\ UNCHANGED <<xpacket, svcVars, normVars, encVars, tplVars, batchVars>>

NextXmp == Encode \/ XmpEncode \/ XmpDecode

SpecXmp == InitXmp /\ [][NextXmp]_vars

\* The value the request carries for a preferred/legacy pair: the preferred
\* field's when it is there (and not empty), else the legacy field's.
Chosen(u, preferred, legacy) ==
    IF preferred \in DOMAIN u /\ Truthy(u[preferred]) THEN u[preferred]
    ELSE IF legacy \in DOMAIN u THEN u[legacy]
    ELSE EmptyStr

\* The rdf:li texts a value gives: the split of a string, the non-blank
\* items of a list.
ItemsOf(v) ==
    IF ~Truthy(v) THEN << >>
    ELSE IF v.t = "str" THEN _split_items(v.s)
    ELSE LET kept == SelectSeq(v.l, LAMBDA x : Len(Strip(ToStr(x))) > 0)
         IN [i \in 1..Len(kept) |-> ToStr(kept[i])]

\* C11: for each pair headline/title, creator/authors, rights/copyright,
\* description/comments and subject/tags, both phases write the preferred
\* field's value when the request has it and the legacy field's otherwise.
C11_PreferredThenLegacy ==
    (epc = "dumped" /\ xpc = "built" /\ xpacket.t = "packet") =>
        LET u == eupdates
            Held(ifd, tag) == IF tag \in DOMAIN ifd THEN <<ifd[tag]>> ELSE << >>
            Utf8(v) == IF Truthy(v) THEN <<PyBytes(Utf8Encode(ToStr(v)))>> ELSE << >>
            Utf16(v) == IF Truthy(v) THEN <<PyBytes(Utf16leEncode(ToStr(v)))>> ELSE << >>
            Attr(k) == IF k \in DOMAIN xpacket.attrs THEN <<xpacket.attrs[k]>> ELSE << >>
            Elem(k) == IF k \in DOMAIN xpacket.elems THEN xpacket.elems[k] ELSE << >>
            One(v) == IF Truthy(v) THEN <<SaxEscape(ToStr(v))>> ELSE << >>
            Many(v) == [i \in 1..Len(ItemsOf(v)) |-> SaxEscape(ItemsOf(v)[i])]
            zeroth == GetIfd(edumped, "0th")
            exif == GetIfd(edumped, "Exif")
        IN /\ Held(zeroth, ImageDescription) = Utf8(Chosen(u, "headline", "title"))
           /\ Held(zeroth, Artist) = Utf8(Chosen(u, "creator", "authors"))
           /\ Held(zeroth, Copyright) = Utf8(Chosen(u, "rights", "copyright"))
           /\ Held(zeroth, XPSubject) = Utf16(Chosen(u, "subject", "tags"))
           /\ Held(exif, UserComment) = Utf8(Chosen(u, "description", "comments"))
           /\ Attr("Headline") = One(Chosen(u, "headline", "title"))
           /\ Elem("creator") = Many(Chosen(u, "creator", "authors"))
           /\ Elem("rights") = One(Chosen(u, "rights", "copyright"))
           /\ Elem("subject") = Many(Chosen(u, "subject", "tags"))
           /\ Elem("description") = One(Chosen(u, "description", "comments"))

\* C12: the packet built for an edit request is well-formed XML: every
\* value placed in an attribute or in element text is escaped so that none
\* of its characters ends or breaks the attribute or element holding it.
C12_PacketWellFormed ==
    (xpc \in {"built", "decoded"} /\ xpacket.t = "packet") =>
        /\ \A k \in DOMAIN xpacket.attrs : XmlCharData(xpacket.attrs[k], TRUE).ok
        /\ \A k \in DOMAIN xpacket.elems : \A i \in 1..Len(xpacket.elems[k]) :
               XmlCharData(xpacket.elems[k][i], FALSE).ok
        /\ ParseXmpPacket(xpacket).ok

\* C13: creator and subject are accepted as a delimited string and as a
\* pre-built list: the packet is built in both forms and holds one rdf:li
\* per non-blank item of the list, or per non-empty trimmed part of the
\* string.
C13_CreatorSubjectForms ==
    xpc \in {"built", "decoded"} =>
        /\ xpacket.t = "packet"
        /\ LET Elem(k) == IF k \in DOMAIN xpacket.elems THEN xpacket.elems[k] ELSE << >>
               Many(v) == [i \in 1..Len(ItemsOf(v)) |-> SaxEscape(ItemsOf(v)[i])]
           IN /\ Elem("creator") = Many(XmpCreator(eupdates))
              /\ Elem("subject") = Many(XmpSubject(eupdates))

\* C14: for a request with non-empty headline, creator and rights, decoding
\* the packet built from it gives Headline equal to the headline, creator
\* equal to the list of the creator's split items and rights equal to the
\* rights text as a scalar.
C14_XmpRoundTrip ==
    (/\ xpc = "decoded"
     /\ Truthy(XmpHeadline(eupdates))
     /\ Truthy(XmpCreator(eupdates))
     /\ Truthy(XmpRights(eupdates))) =>
        /\ {"Headline", "creator", "rights"} \subseteq DOMAIN xdecoded
        /\ xdecoded["Headline"] = XmpHeadline(eupdates)
        /\ xdecoded["creator"] =
              PyList([i \in 1..Len(_split_items(XmpCreator(eupdates).s)) |->
                         PyStr(_split_items(XmpCreator(eupdates).s)[i])])
        /\ xdecoded["rights"] = XmpRights(eupdates)


(***************************************************************************)
(* TemplateManager: templates as JSON files of one directory               *)
(***************************************************************************)
\* The number of TemplateManager calls of a behaviour.
MaxTplCalls == 3

\* The template names of the check: "", "a", "B" and "x/y".
TemplateNames == { << >>, <<97>>, <<66>>, <<120, 47, 121>> }

\* The metadata handed to create_template: a dict json can serialise, or
\* one holding a value it cannot (bytes, a set).
TemplateMetadata == {"serialisable", "unserialisable"}

\* f"{name}.json", relative to templates_dir
template_path(name) == name \o <<46, 106, 115, 111, 110>>

\* open(template_path, 'w') fails when the name leads into a directory that
\* does not exist.
OpenForWriteFails(name) == \E i \in 1..Len(name) : name[i] = 47

\* pathlib's stem: the file name up to its last dot, when that dot is
\* neither the first nor the last character; else the whole file name.
Stem(fname) ==
    LET dots == {i \in 1..Len(fname) : fname[i] = 46}
        j == IF dots = {} THEN 0 ELSE CHOOSE i \in dots : \A k \in dots : k <= i
    IN IF 1 < j /\ j < Len(fname) THEN SubSeq(fname, 1, j - 1) ELSE fname

\* str < str: by code points, a proper prefix first.
RECURSIVE StrLess(_, _)
StrLess(a, b) ==
    IF Len(b) = 0 THEN FALSE
    ELSE IF Len(a) = 0 THEN TRUE
    ELSE IF a[1] # b[1] THEN a[1] < b[1]
    ELSE StrLess(Tail(a), Tail(b))

\* sorted(...) of distinct strings
RECURSIVE SortedStrs(_)
SortedStrs(S) ==
    IF S = {} THEN << >>
    ELSE LET m == CHOOSE x \in S : \A y \in S : x = y \/ StrLess(x, y)
         IN <<m>> \o SortedStrs(S \ {m})

\* save_template: the file is opened for writing (created or emptied) and
\* json.dump writes into it; a value json cannot serialise raises after the
\* text before it was written.
save_template(files, name, metadata) ==
    IF OpenForWriteFails(name) THEN [ok |-> FALSE, files |-> files]
    ELSE IF metadata = "unserialisable"
    THEN [ok |-> FALSE, files |-> Put(files, template_path(name), "partial")]
    ELSE [ok |-> TRUE, files |-> Put(files, template_path(name), "complete")]

\* sorted(f.stem for f in templates_dir.glob("*.json"))
list_templates_of(files) == SortedStrs({Stem(f) : f \in DOMAIN files})

InitTpl ==
    /\ tfiles = << >>
    /\ tmem = {}
    /\ tlive = {}
    /\ tret = [op |-> "none"]
    /\ tcalls = 0
    /\ SvcIdle
    /\ NormIdle
    /\ EncIdle
    /\ XmpIdle
    /\ BatchIdle

\* create_template(name, metadata): the template enters self.templates,
\* then save_template. tlive records the names created (True returned) and
\* not deleted since.
create_template(name, metadata) ==
    /\ tcalls < MaxTplCalls
    /\ tcalls' = tcalls + 1
    /\ LET r == save_template(tfiles, name, metadata)
       IN /\ tmem' = tmem \cup {name}
          /\ tfiles' = r.files
          /\ tlive' = IF r.ok THEN tlive \cup {name} ELSE tlive
          /\ tret' = [op |-> "create", name |-> name, ok |-> r.ok]
    /\ UNCHANGED <<svcVars, normVars, encVars, xmpVars, batchVars>>

\* delete_template(name)
delete_template(name) ==
    /\ tcalls < MaxTplCalls
    /\ tcalls' = tcalls + 1
    /\ IF template_path(name) \in DOMAIN tfiles
       THEN /\ tfiles' = [f \in (DOMAIN tfiles) \ {template_path(name)} |-> tfiles[f]]
            /\ tmem' = tmem \ {name}
            /\ tlive' = tlive \ {name}
            /\ tret' = [op |-> "delete", name |-> name, ok |-> TRUE, existed |-> name \in tlive]
       ELSE /\ tret' = [op |-> "delete", name |-> name, ok |-> FALSE, existed |-> name \in tlive]
            /\ UNCHANGED <<tfiles, tmem, tlive>>
    /\ UNCHANGED <<svcVars, normVars, encVars, xmpVars, batchVars>>

\* list_templates()
list_templates ==
    /\ tcalls < MaxTplCalls
    /\ tcalls' = tcalls + 1
    /\ tret' = [op |-> "list", names |-> list_templates_of(tfiles)]
    /\ UNCHANGED <<tfiles, tmem, tlive, svcVars, normVars, encVars, xmpVars, batchVars>>

NextTpl ==
    \/ \E name \in TemplateNames, metadata \in TemplateMetadata : create_template(name, metadata)
    \/ \E name \in TemplateNames : delete_template(name)
    \/ list_templates

SpecTpl == InitTpl /\ [][NextTpl]_vars

\* C18: after any sequence of create_template and delete_template calls,
\* list_templates() returns in sorted order exactly the names created (True
\* returned) and not deleted afterwards, and delete_template returns True
\* exactly when the template existed.
C18_ListIsCreatedNotDeleted ==
    /\ tret.op = "list" => tret.names = SortedStrs(tlive)
    /\ tret.op = "delete" => (tret.ok <=> tret.existed)


(***************************************************************************)
(* delete_all_metadata and delete_specific_metadata                        *)
(***************************************************************************)
\* The image rebuilt from its pixel data alone and saved as JPEG at
\* quality 95: the pixels recompressed, no EXIF segment, no XMP packet.
Stripped(c) == File("JPEG", c.px \o "~q95", ExifNone, XmpNone)

\* The body of delete_all_metadata on content c: what it returns, what it
\* writes to save_path and the error it records.
delete_all(p, c, old, io) ==
    IF c = Absent
    THEN [ok |-> FALSE, out |-> NoWrite, err |-> Err("File not found", AboutPath(p))]
    ELSE IF ~ImageOpens(c)
    THEN [ok |-> FALSE, out |-> NoWrite, err |-> Err("Error deleting metadata", AboutExc("e"))]
    ELSE CASE io \in {"ok", "ok_keep_xmp"} ->
                 [ok |-> TRUE, out |-> Written(Stripped(c)), err |-> old]
           [] io = "fail_clean" ->
                 [ok |-> FALSE, out |-> NoWrite,
                  err |-> Err("Error deleting metadata", AboutExc("e"))]
           [] OTHER ->
                 [ok |-> FALSE, out |-> Written(Truncated),
                  err |-> Err("Error deleting metadata", AboutExc("e"))]

\* The sets of field names a caller may ask to delete: none, one EXIF tag,
\* one XMP property.
KeysToDelete ==
    { [exif |-> {}, xmp |-> {}],
      [exif |-> {<<"0th", Make>>}, xmp |-> {}],
      [exif |-> {}, xmp |-> {"Headline"}] }

\* delete_all_metadata(file_path, output_path)
DeleteAllMetadata(p, out, io) ==
    /\ pc = "idle"
    /\ ncalls < MaxCalls
    /\ ncalls' = ncalls + 1
    /\ LET r == delete_all(p, fs[p], last_error, io)
       IN /\ fs' = IF r.out.w THEN [fs EXCEPT ![SavePath(p, out)] = r.out.c] ELSE fs
          /\ last_error' = r.err
          /\ ret' = [op |-> "delete_all", ok |-> r.ok]
    /\ frame' = [op |-> "delete_all", file_path |-> p, save_path |-> SavePath(p, out),
                 input |-> fs[p]]
    /\ trace' = << >>
    /\ UNCHANGED <<pc, env, normVars, encVars, xmpVars, tplVars, batchVars>>

\* delete_specific_metadata(file_path, keys_to_delete, output_path): the
\* existence check, read_metadata (whose result is not used: only the
\* error it records matters, exc naming the decode phase that raised), then
\* delete_all_metadata.
DeleteSpecificMetadata(p, keys, out, exc, io) ==
    /\ pc = "idle"
    /\ ncalls < MaxCalls
    /\ ncalls' = ncalls + 1
    /\ LET c == fs[p]
           ph == ReadPhases(c, env, "normal", exc)
           afterRead ==
               IF c = Absent THEN Err("File not found", AboutPath(p))
               ELSE IF read_guard(p, c) = "unsupported"
               THEN Err("Unsupported file format", AboutExt(get_file_extension(p)))
               ELSE AfterErrors(IF _read_general_metadata(c) = << >>
                                THEN Err("Error reading general metadata", AboutExc("e"))
                                ELSE last_error,
                                ph.err, AboutExc("e"))
           r == delete_all(p, c, afterRead, io)
       IN /\ fs' = IF r.out.w THEN [fs EXCEPT ![SavePath(p, out)] = r.out.c] ELSE fs
          /\ last_error' = r.err
          /\ ret' = [op |-> "delete_specific", ok |-> r.ok]
    /\ frame' = [op |-> "delete_specific", file_path |-> p, save_path |-> SavePath(p, out),
                 input |-> fs[p], keys |-> keys]
    /\ trace' = << >>
    /\ UNCHANGED <<pc, env, normVars, encVars, xmpVars, tplVars, batchVars>>

NextDel ==
    \/ \E p \in Paths, out \in OutputPaths, io \in WriteChoices : DeleteAllMetadata(p, out, io)
    \/ \E p \in Paths, keys \in KeysToDelete, out \in OutputPaths,
          exc \in ReadExcChoices, io \in WriteChoices :
             DeleteSpecificMetadata(p, keys, out, exc, io)

SpecDel == Init /\ [][NextDel]_vars

\* The XMP properties a file holds.
XmpFieldsOf(c) == IF c.xmp.st = "packet" THEN DOMAIN ParsedPacket(c.xmp.f) ELSE {}

\* C19: delete_specific_metadata removes the fields named in keys_to_delete
\* and only those: when it has returned True, every EXIF tag and XMP
\* property of the input that was not named is still in the output file.
C19_OnlyNamedKeysRemoved ==
    (frame.op = "delete_specific" /\ ret.ok) =>
        LET c == fs[frame.save_path]
        IN /\ \A f \in (DOMAIN _read_exif(frame.input)) \ frame.keys.exif :
                  f \in DOMAIN _read_exif(c)
           /\ \A f \in XmpFieldsOf(frame.input) \ frame.keys.xmp : f \in XmpFieldsOf(c)


(***************************************************************************)
(* _normalize_metadata_dict: the keys of a decoded map                     *)
(***************************************************************************)
\* MetadataHandler._normalize_metadata_dict on a dict held as its items in
\* insertion order: a str key holding '}' becomes key.split('}', 1)[1], the
\* text after its first '}'; the value goes through _normalize_value.
_normalize_metadata_dict(d) ==
    LET n == Len(d.kv)
        OutKey(k) ==
            IF k.t = "str" /\ \E i \in 1..Len(k.s) : k.s[i] = 125
            THEN LET first == CHOOSE i \in 1..Len(k.s) :
                                  k.s[i] = 125 /\ \A j \in 1..(i - 1) : k.s[j] # 125
                 IN PyStr(SubSeq(k.s, first + 1, Len(k.s)))
            ELSE k
        Build[i \in 0..n] ==
            IF i = 0 THEN PyDict(<< >>)
            ELSE LET acc == Build[i - 1]
                 IN IF acc.t = "raise" THEN acc
                    ELSE LET x == _normalize_value(d.kv[i][2])
                         IN IF x.t = "raise" THEN x
                            ELSE PyDict(DictSet(acc.kv, OutKey(d.kv[i][1]), x))
    IN Build[n]

\* The decoded maps of the check: one or two entries, with plain keys and
\* keys in Clark notation ("t", "{n}t", "{m}t", "{n}{m}t"), and with text,
\* a number or a nested map under such a key as values.
RawDicts ==
    LET Keys == { PyStr(<<116>>), PyStr(<<123, 110, 125, 116>>),
                  PyStr(<<123, 109, 125, 116>>),
                  PyStr(<<123, 110, 125, 123, 109, 125, 116>>) }
        Values == { PyStr(<<118>>), PyInt(1) }
                     \cup { PyDict(<< <<k, PyStr(<<118>>)>> >>) : k \in Keys }
    IN { PyDict(<< <<k, v>> >>) : k \in Keys, v \in Values }
         \cup { PyDict(<< <<kk[1], v1>>, <<kk[2], v2>> >>) :
                  kk \in {x \in Keys \X Keys : x[1] # x[2]}, v1 \in Values, v2 \in Values }

InitNsp ==
    /\ nv \in RawDicts
    /\ nout = PyNone
    /\ nout2 = PyNone
    /\ npc = "ready"
    /\ SvcIdle
    /\ EncIdle
    /\ XmpIdle
    /\ TplIdle
    /\ BatchIdle

\* out = handler._normalize_metadata_dict(d)
NormalizeDict ==
    /\ npc = "ready"
    /\ nout' = _normalize_metadata_dict(nv)
    /\ npc' = "once"
    /\ UNCHANGED <<nv, nout2, svcVars, encVars, xmpVars, tplVars, batchVars>>

NextNsp == NormalizeDict

SpecNsp == InitNsp /\ [][NextNsp]_vars

\* No str key of the value holds '}', at any depth.
RECURSIVE NoNamespaceKey(_)
NoNamespaceKey(v) ==
    CASE v.t = "dict" ->
            \A i \in 1..Len(v.kv) :
                /\ v.kv[i][1].t = "str" => \A j \in 1..Len(v.kv[i][1].s) : v.kv[i][1].s[j] # 125
                /\ NoNamespaceKey(v.kv[i][2])
      [] v.t = "list" -> \A i \in 1..Len(v.l) : NoNamespaceKey(v.l[i])
      [] OTHER -> TRUE

\* C20: no key of a normalized map retains a namespace prefix, at any
\* nesting depth: top-level keys and the keys of nested maps alike are
\* reduced to the text after their last '}'.
C20_NoNamespacePrefix ==
    npc = "once" => nout.t = "dict" /\ NoNamespaceKey(nout)


(***************************************************************************)
(* _read_exif in full: tag names, XP and byte fields, the decoded map      *)
(***************************************************************************)
\* The part of piexif.TAGS the inputs touch: the names of the Image tags
\* (the catalog of both the 0th and the 1st IFD), of the Exif, GPS and
\* Interop tags, as text.
TAGS ==
    LET Image ==
            (259 :> <<67, 111, 109, 112, 114, 101, 115, 115, 105, 111, 110>>) @@ (271 :> <<77, 97, 107, 101>>) @@ (274 :> <<79, 114, 105, 101, 110, 116, 97, 116, 105, 111, 110>>)
              @@ (305 :> <<83, 111, 102, 116, 119, 97, 114, 101>>)
              @@ (33434 :> <<69, 120, 112, 111, 115, 117, 114, 101, 84, 105, 109, 101>>)
              @@ (40094 :> <<88, 80, 75, 101, 121, 119, 111, 114, 100, 115>>) @@ (40095 :> <<88, 80, 83, 117, 98, 106, 101, 99, 116>>)
    IN [ifd \in {"0th", "Exif", "GPS", "Interop", "1st"} |->
          CASE ifd \in {"0th", "1st"} -> Image
            [] ifd = "Exif" ->
                  (33434 :> <<69, 120, 112, 111, 115, 117, 114, 101, 84, 105, 109, 101>>) @@ (36867 :> <<68, 97, 116, 101, 84, 105, 109, 101, 79, 114, 105, 103, 105, 110, 97, 108>>)
                    @@ (37500 :> <<77, 97, 107, 101, 114, 78, 111, 116, 101>>) @@ (37510 :> <<85, 115, 101, 114, 67, 111, 109, 109, 101, 110, 116>>)
                    @@ (41729 :> <<83, 99, 101, 110, 101, 84, 121, 112, 101>>)
            [] ifd = "GPS" -> (1 :> <<71, 80, 83, 76, 97, 116, 105, 116, 117, 100, 101, 82, 101, 102>>) @@ (2 :> <<71, 80, 83, 76, 97, 116, 105, 116, 117, 100, 101>>)
            [] OTHER -> (1 :> <<73, 110, 116, 101, 114, 111, 112, 101, 114, 97, 98, 105, 108, 105, 116, 121, 73, 110, 100, 101, 120>>)]

IfdOrderMutantReversed == <<"1st", "Interop", "GPS", "Exif", "0th">>

\* The keys of the dict piexif.load returns, in its insertion order, each
\* with its text.
IfdOrder == <<"0th", "Exif", "GPS", "Interop", "1st">>

IfdText ==
    [ifd \in {"0th", "Exif", "GPS", "Interop", "1st"} |->
        CASE ifd = "0th" -> <<48, 116, 104>>
          [] ifd = "Exif" -> <<69, 120, 105, 102>>
          [] ifd = "GPS" -> <<71, 80, 83>>
          [] ifd = "Interop" -> <<73, 110, 116, 101, 114, 111, 112>>
          [] OTHER -> <<49, 115, 116>>]

\* format(tag, '04X'): the upper-case hex digits of tag, zero-padded to four.
RECURSIVE HexDigits(_)
HexDigits(n) ==
    LET digit == IF n % 16 < 10 THEN 48 + (n % 16) ELSE 55 + (n % 16)
    IN IF n < 16 THEN <<digit>> ELSE Append(HexDigits(n \div 16), digit)

Hex04X(tag) ==
    LET h == HexDigits(tag)
    IN [i \in 1..(IF Len(h) < 4 THEN 4 - Len(h) ELSE 0) |-> 48] \o h

tag_nameMutantNoIfd(ifd_name, tag) ==
    IF tag \in DOMAIN TAGS[ifd_name] THEN TAGS[ifd_name][tag]
    ELSE <<48, 120>> \o Hex04X(tag)

\* The name of a tag: its catalog name, else f"{ifd_name}:0x{tag:04X}".
tag_name(ifd_name, tag) ==
    IF tag \in DOMAIN TAGS[ifd_name] THEN TAGS[ifd_name][tag]
    ELSE IfdText[ifd_name] \o <<58, 48, 120>> \o Hex04X(tag)

\* b.decode('utf-16le', errors='ignore'): a trailing odd byte, a surrogate
\* that is not half of a pair and a pair cut short are left out.
RECURSIVE Utf16UnitsIgnore(_)
Utf16UnitsIgnore(u) ==
    IF Len(u) = 0 THEN << >>
    ELSE IF u[1] >= 55296 /\ u[1] <= 56319
    THEN IF Len(u) >= 2 /\ u[2] >= 56320 /\ u[2] <= 57343
         THEN <<65536 + (u[1] - 55296) * 1024 + (u[2] - 56320)>>
                  \o Utf16UnitsIgnore(SubSeq(u, 3, Len(u)))
         ELSE Utf16UnitsIgnore(Tail(u))
    ELSE IF u[1] >= 56320 /\ u[1] <= 57343 THEN Utf16UnitsIgnore(Tail(u))
    ELSE <<u[1]>> \o Utf16UnitsIgnore(Tail(u))

Utf16leDecodeIgnore(b) ==
    Utf16UnitsIgnore([i \in 1..(Len(b) \div 2) |-> b[2 * i - 1] + 256 * b[2 * i]])

\* b.decode('utf-8', errors='replace'): every maximal ill-formed run of a
\* sequence becomes U+FFFD.
RECURSIVE Utf8DecodeReplace(_)
Utf8DecodeReplace(b) ==
    IF Len(b) = 0 THEN << >>
    ELSE LET n == Utf8SeqLen(b[1])
             ok(i) == i <= Len(b) /\ (IF i = 2 THEN Utf8SecondOk(b[1], b[2]) ELSE IsCont(b[i]))
             good == IF n = 0 THEN 1
                     ELSE IF \A i \in 2..n : ok(i) THEN n
                     ELSE (CHOOSE i \in 2..n : ~ok(i) /\ \A j \in 2..(i - 1) : ok(j)) - 1
         IN (IF n > 0 /\ good = n THEN <<Utf8Cp(SubSeq(b, 1, n))>> ELSE <<65533>>)
                \o Utf8DecodeReplace(SubSeq(b, good + 1, Len(b)))

\* str(n) of an int n >= 0
RECURSIVE IntDigits(_)
IntDigits(n) == IF n < 10 THEN <<48 + n>> ELSE Append(IntDigits(n \div 10), 48 + (n % 10))

\* str(t) of a tuple of ints, as piexif holds arrays: "(300, 1)", "(300,)"
TupleStr(ints) ==
    <<40>> \o JoinWith([i \in 1..Len(ints) |-> IntDigits(ints[i])], <<44, 32>>)
           \o (IF Len(ints) = 1 THEN <<44, 41>> ELSE <<41>>)

\* The XP branch: an array goes through bytes(tag_value) (str(tag_value)
\* when that fails), bytes are read as UTF-16LE without trailing NULs and
\* split on runs of ';', ',' and NUL into their non-blank trimmed parts.
DecodeXP(v) ==
    LET isArray == v.t = "list"
        asBytes == isArray /\ \A i \in 1..Len(v.l) :
                       IsInt(v.l[i]) /\ IntOf(v.l[i]) >= 0 /\ IntOf(v.l[i]) <= 255
        raw == IF isArray
               THEN IF asBytes THEN PyBytes([i \in 1..Len(v.l) |-> IntOf(v.l[i])])
                    ELSE PyStr(TupleStr([i \in 1..Len(v.l) |-> IntOf(v.l[i])]))
               ELSE v
        val == RStripNul(Utf16leDecodeIgnore(raw.b))
        parts == StrippedNonEmpty(SplitRuns(val, {59, 44, 0}))
    IN IF raw.t # "bytes" THEN raw
       ELSE IF Len(parts) > 1 THEN PyList([i \in 1..Len(parts) |-> PyStr(parts[i])])
       ELSE IF Len(parts) = 1 THEN PyStr(parts[1])
       ELSE EmptyStr

\* re.sub(r'^(ASCII|UNICODE|JIS)\s*\x00+', '', val, flags=re.IGNORECASE)
StripCharsetPrefix(val) ==
    LET words == {<<97, 115, 99, 105, 105>>, <<117, 110, 105, 99, 111, 100, 101>>, <<106, 105, 115>>}
        hit == {w \in words : Len(val) >= Len(w) /\ Lower(SubSeq(val, 1, Len(w))) = w}
        RECURSIVE Skip(_, _)
        Skip(s, what) ==
            IF Len(s) > 0 /\ (IF what = "space" THEN IsSpace(s[1]) ELSE s[1] = 0)
            THEN Skip(Tail(s), what) ELSE s
    IN IF hit = {} THEN val
       ELSE LET w == CHOOSE x \in hit : TRUE
                afterSpace == Skip(SubSeq(val, Len(w) + 1, Len(val)), "space")
                afterNul == Skip(afterSpace, "nul")
            IN IF Len(afterNul) < Len(afterSpace) THEN afterNul ELSE val

\* The other byte fields: UTF-8 text; UserComment without its character
\* code prefix, trailing NULs and surrounding blanks.
DecodeByteField(name, b) ==
    LET val == Utf8DecodeReplace(b)
    IN IF name = <<85, 115, 101, 114, 67, 111, 109, 109, 101, 110, 116>> /\ Len(val) > 0
       THEN PyStr(Strip(RStripNul(StripCharsetPrefix(val))))
       ELSE PyStr(val)

\* tag_name.startswith('XP') or tag_name.lower() in ('xpkeywords', ...)
IsXPName(name) ==
    \/ Len(name) >= 2 /\ name[1] = 88 /\ name[2] = 80
    \/ Lower(name) \in {<<120, 112, 107, 101, 121, 119, 111, 114, 100, 115>>, <<120, 112, 115, 117, 98, 106, 101, 99, 116>>, <<120, 112, 116, 105, 116, 108, 101>>, <<120, 112, 99, 111, 109, 109, 101, 110, 116, 115>>}

\* The value recorded for a tag, before the normalization of the map.
DecodeTagValue(name, v) ==
    IF IsXPName(name) THEN DecodeXP(v)
    ELSE IF v.t = "bytes" THEN DecodeByteField(name, v.b)
    ELSE v

\* The tags of an IFD in ascending order.
RECURSIVE TagsInOrder(_)
TagsInOrder(S) ==
    IF S = {} THEN << >>
    ELSE LET m == CHOOSE x \in S : \A y \in S : x <= y
         IN <<m>> \o TagsInOrder(S \ {m})

\* exif_dict after the loops over the IFDs and their tags:
\* exif_dict[tag_name] = tag_value, a later entry of the same name
\* replacing the value of an earlier one.
exif_dict_of(img_data) ==
    LET entries ==
            Flatten([k \in 1..Len(IfdOrder) |->
                LET ifd_name == IfdOrder[k]
                    ifd == GetIfd(img_data, ifd_name)
                    tags == TagsInOrder(DOMAIN ifd)
                IN [i \in 1..Len(tags) |->
                       LET name == tag_name(ifd_name, tags[i])
                       IN <<PyStr(name), DecodeTagValue(name, ifd[tags[i]])>>]])
        Build[i \in 0..Len(entries)] ==
            IF i = 0 THEN << >> ELSE DictSet(Build[i - 1], entries[i][1], entries[i][2])
    IN PyDict(Build[Len(entries)])

\* MetadataHandler._read_exif on the dict piexif.load returned.
read_exif(img_data) ==
    LET exif_dict == exif_dict_of(img_data)
        normalized == _normalize_metadata_dict(exif_dict)
    IN IF normalized.t = "raise" THEN exif_dict ELSE normalized


(***************************************************************************)
(* The EXIF decoder on its own: one dict of IFDs as piexif.load returns it *)
(***************************************************************************)
\* The dicts of the check. 0th and 1st share the Image catalog (Make in
\* both), 0th and Exif both know ExposureTime (33434); tags 1 and 65000
\* have no name in the 0th, Exif and 1st catalogs; XPSubject and XPKeywords
\* hold UTF-16LE text as an array of ints ("a;b" and NULs) or as bytes
\* (" cat", "z"), and once an array bytes() refuses.
ExifReadInputs ==
    LET Ifd0 == { << >>,
                  (Make :> PyBytes(<<79>>)),
                  (Make :> PyBytes(<<79>>)) @@ (1 :> PyInt(7)) @@ (65000 :> PyBytes(<<120>>)),
                  (XPSubject :> PyList(<<PyInt(97), PyInt(0), PyInt(59), PyInt(0), PyInt(98), PyInt(0), PyInt(0), PyInt(0), PyInt(0), PyInt(0)>>)),
                  (Make :> PyBytes(<<79>>)) @@ (40094 :> PyBytes(<<32, 0, 99, 0, 97, 0, 116, 0>>)),
                  (XPSubject :> PyList(<<PyInt(300), PyInt(1)>>)),
                  (ExposureTime :> PyList(<<PyInt(1), PyInt(4)>>)) }
        IfdExif == { << >>,
                     (ExposureTime :> PyList(<<PyInt(1), PyInt(3)>>)),
                     (1 :> PyInt(8)) @@ (UserComment :> PyBytes(<<65, 83, 67, 73, 73, 0, 0, 0, 72, 105, 32>>)) }
        IfdGps == { << >>,
                    (1 :> PyBytes(<<78>>))
                       @@ (2 :> PyList(<<PyList(<<PyInt(30), PyInt(1)>>),
                                         PyList(<<PyInt(1), PyInt(1)>>),
                                         PyList(<<PyInt(0), PyInt(1)>>)>>)) }
        Ifd1 == { << >>,
                  (Make :> PyBytes(<<84>>)) @@ (1 :> PyInt(9)),
                  (65000 :> PyBytes(<<121>>)) @@ (XPSubject :> PyBytes(<<122, 0>>)) }
    IN { [k \in {"0th", "Exif", "GPS", "Interop", "1st", "thumbnail"} |->
            CASE k = "0th" -> a
              [] k = "Exif" -> b
              [] k = "GPS" -> c
              [] k = "1st" -> d
              [] k = "thumbnail" -> PyNone
              [] OTHER -> EmptyIfd] :
         a \in Ifd0, b \in IfdExif, c \in IfdGps, d \in Ifd1 }

InitRead ==
    /\ nv \in ExifReadInputs
    /\ nout = PyNone
    /\ nout2 = PyNone
    /\ npc = "loaded"
    /\ SvcIdle
    /\ EncIdle
    /\ XmpIdle
    /\ TplIdle
    /\ BatchIdle

\* _read_exif after piexif.load: the loops, the normalization, the return.
ReadExif ==
    /\ npc = "loaded"
    /\ nout' = read_exif(nv)
    /\ npc' = "read"
    /\ UNCHANGED <<nv, nout2, svcVars, encVars, xmpVars, tplVars, batchVars>>

NextRead == ReadExif

SpecRead == InitRead /\ [][NextRead]_vars

\* The entry of the decoded map under a name, as a sequence of at most one
\* value.
DecodedUnder(name) ==
    LET at == {i \in 1..Len(nout.kv) : nout.kv[i][1] = PyStr(name)}
    IN IF at = {} THEN << >> ELSE <<nout.kv[CHOOSE i \in at : TRUE][2]>>

\* C23: the fallback naming is collision-free. Distinct (IFD, tag id) pairs
\* without a catalog name get distinct names '<ifd>:0x' followed by four
\* upper-case hex digits, none of them a catalog name, and the decoded map
\* holds every uncatalogued tag of the input under its name with its own
\* value.
C23_FallbackNamesDistinct ==
    LET Ifds == {"0th", "Exif", "GPS", "Interop", "1st"}
        Tags == {0, 1, 2, 10, 15, 16, 255, 256, 271, 4095, 4096, 33434, 40095,
                 43981, 65000, 65535}
        Uncatalogued == {x \in Ifds \X Tags : x[2] \notin DOMAIN TAGS[x[1]]}
        CatalogNames == UNION {{TAGS[f][t] : t \in DOMAIN TAGS[f]} : f \in Ifds}
        HexUpper == (48..57) \cup (65..70)
        Name(x) == tag_name(x[1], x[2])
    IN /\ \A x \in Uncatalogued, y \in Uncatalogued : x # y => Name(x) # Name(y)
       /\ \A x \in Uncatalogued :
             /\ Len(Name(x)) = Len(IfdText[x[1]]) + 7
             /\ SubSeq(Name(x), 1, Len(IfdText[x[1]]) + 3) = IfdText[x[1]] \o <<58, 48, 120>>
             /\ \A i \in (Len(Name(x)) - 3)..Len(Name(x)) : Name(x)[i] \in HexUpper
             /\ Name(x) \notin CatalogNames
       /\ npc = "read" =>
             \A f \in Ifds : \A t \in DOMAIN nv[f] :
                 t \notin DOMAIN TAGS[f] =>
                     DecodedUnder(tag_name(f, t)) =
                        <<_normalize_value(DecodeTagValue(tag_name(f, t), nv[f][t]))>>

\* Tag 1 of the 0th, of the Exif and of the 1st IFD, uncatalogued in all
\* three, decoded under three names with their three values.
C23_Witness ==
    /\ npc = "read"
    /\ DecodedUnder(<<48, 116, 104, 58, 48, 120, 48, 48, 48, 49>>) = <<PyInt(7)>>
    /\ DecodedUnder(<<69, 120, 105, 102, 58, 48, 120, 48, 48, 48, 49>>) = <<PyInt(8)>>
    /\ DecodedUnder(<<49, 115, 116, 58, 48, 120, 48, 48, 48, 49>>) = <<PyInt(9)>>
    /\ DecodedUnder(<<48, 116, 104, 58, 48, 120, 70, 68, 69, 56>>) = <<PyStr(<<120>>)>>

\* C24: when tags of different IFDs resolve to the same name, the decoded
\* map holds the value of the IFD that comes last in the order 0th, Exif,
\* GPS, 1st: every name of the map carries the value of the last IFD with a
\* tag of that name, and every tag's name is in the map. A name held by the
\* Exif or GPS IFD therefore never carries the value of the 0th IFD.
C24_LastIfdWins ==
    LET Order == <<"0th", "Exif", "GPS", "1st">>
        Holders(name) ==
            {k \in 1..4 : \E t \in DOMAIN nv[Order[k]] : tag_name(Order[k], t) = name}
        Last(name) == CHOOSE k \in Holders(name) : \A j \in Holders(name) : j <= k
        ValueIn(k, name) ==
            LET t == CHOOSE t \in DOMAIN nv[Order[k]] : tag_name(Order[k], t) = name
            IN _normalize_value(DecodeTagValue(name, nv[Order[k]][t]))
    IN npc = "read" =>
          /\ \A i \in 1..Len(nout.kv) :
                /\ nout.kv[i][1].t = "str"
                /\ Holders(nout.kv[i][1].s) # {}
                /\ nout.kv[i][2] = ValueIn(Last(nout.kv[i][1].s), nout.kv[i][1].s)
          /\ \A k \in 1..4 : \A t \in DOMAIN nv[Order[k]] :
                DecodedUnder(tag_name(Order[k], t)) # << >>

\* Make in the 0th and in the 1st IFD: the map holds the 1st IFD's "T";
\* ExposureTime in the 0th (1/4) and in the Exif IFD (1/3): the map holds
\* the Exif IFD's value.
C24_Witness ==
    /\ npc = "read"
    /\ nv["0th"] = (271 :> PyBytes(<<79>>))
    /\ nv["1st"] = (271 :> PyBytes(<<84>>)) @@ (1 :> PyInt(9))
    /\ DecodedUnder(<<77, 97, 107, 101>>) = <<PyStr(<<84>>)>>

C24_WitnessExif ==
    /\ npc = "read"
    /\ nv["0th"] = (33434 :> PyList(<<PyInt(1), PyInt(4)>>))
    /\ nv["Exif"] = (33434 :> PyList(<<PyInt(1), PyInt(3)>>))
    /\ DecodedUnder(<<69, 120, 112, 111, 115, 117, 114, 101, 84, 105, 109, 101>>)
          = <<PyFloat(33333333, Scale8)>>

\* C25: for every tag whose name begins with 'XP' and whose raw value is a
\* byte buffer or an array of integers, the normalized map holds the
\* UTF-16LE text of the value, trailing NULs stripped, split on ';', ',' and
\* NUL into non-empty trimmed parts: a list of the parts when there are two
\* or more, the part itself when there is one. (Stated for the tags that no
\* later IFD holds under the same name.)
C25_XPTextSplit ==
    LET Order == <<"0th", "Exif", "GPS", "Interop", "1st">>
        Seps == {59, 44, 0}
        BeginsXP(name) == Len(name) >= 2 /\ SubSeq(name, 1, 2) = <<88, 80>>
        IsIntArray(v) == v.t = "list" /\ \A i \in 1..Len(v.l) : IsInt(v.l[i])
        IsByteArray(v) ==
            IsIntArray(v) /\ \A i \in 1..Len(v.l) : IntOf(v.l[i]) \in 0..255
        BytesOf(v) == IF v.t = "bytes" THEN v.b ELSE [i \in 1..Len(v.l) |-> IntOf(v.l[i])]
        LastHolder(k, name) ==
            \A j \in (k + 1)..5 : \A t \in DOMAIN nv[Order[j]] : tag_name(Order[j], t) # name
        PartsOf(g) ==
            IF g.t = "list" THEN [i \in 1..Len(g.l) |-> g.l[i].s]
            ELSE IF Len(g.s) > 0 THEN <<g.s>> ELSE << >>
    IN npc = "read" =>
          \A k \in 1..5 : \A t \in DOMAIN nv[Order[k]] :
             LET name == tag_name(Order[k], t)
                 v == nv[Order[k]][t]
                 got == DecodedUnder(name)
             IN (BeginsXP(name) /\ (v.t = "bytes" \/ IsIntArray(v)) /\ LastHolder(k, name)) =>
                   /\ got # << >>
                   /\ got[1].t \in {"list", "str"}
                   /\ got[1].t = "list" =>
                         Len(got[1].l) >= 2 /\ \A i \in 1..Len(got[1].l) : got[1].l[i].t = "str"
                   /\ \A i \in 1..Len(PartsOf(got[1])) :
                         LET part == PartsOf(got[1])[i]
                         IN /\ Len(part) > 0
                            /\ Strip(part) = part
                            /\ \A j \in 1..Len(part) : part[j] \notin Seps
                   /\ (v.t = "bytes" \/ IsByteArray(v)) /\ Utf16leDecode(BytesOf(v)).ok =>
                         PartsOf(got[1]) =
                            StrippedNonEmpty(SplitEach(RStripNul(Utf16leDecode(BytesOf(v)).s), Seps))


(***************************************************************************)
(* The XMP decoder on packets of any origin: children with rdf:li          *)
(***************************************************************************)
\* The packets of the check: rdf:Description without attributes, each child
\* absent or holding one or two rdf:li ("T"; "T","U"; "T" and a blank one;
\* " D " with blanks around it; ...).
LiPackets ==
    LET Child(k, lis) == IF lis = << >> THEN << >> ELSE (k :> lis)
    IN { [t |-> "packet", attrs |-> << >>,
          elems |-> Child("title", ti) @@ Child("description", d) @@ Child("rights", r)
                       @@ Child("headline", h) @@ Child("subject", sb)] :
         ti \in {<< >>, <<<<84>>>>, <<<<84>>, <<85>>>>, <<<<84>>, <<32>>>>},
         d \in {<< >>, <<<<32, 68, 32>>>>},
         r \in {<< >>, <<<<82>>>>},
         h \in {<< >>, <<<<72>>>>, <<<<72>>, <<73>>>>},
         sb \in {<< >>, <<<<115>>>>, <<<<115>>, <<116>>>>} }

InitLi ==
    /\ xpacket \in LiPackets
    /\ xdecoded = << >>
    /\ xpc = "built"
    /\ SvcIdle
    /\ NormIdle
    /\ EncIdle
    /\ TplIdle
    /\ BatchIdle

NextLi == XmpDecode

SpecLi == InitLi /\ [][NextLi]_vars

\* C26: for each child of rdf:Description with rdf:li: when its local name
\* is title, description, rights or headline and it has exactly one li, the
\* output holds the li's trimmed text as a string (headline under the key
\* 'Headline'); otherwise the output holds the list of the li texts.
C26_LiScalarOrList ==
    xpc = "decoded" /\ xpacket.t = "packet" =>
        \A k \in DOMAIN xpacket.elems :
            LET lis == xpacket.elems[k]
                texts == [i \in 1..Len(lis) |-> XmlCharData(lis[i], FALSE).s]
                kept == StrippedNonEmpty(texts)
                key == IF k = "headline" THEN "Headline" ELSE k
            IN Len(lis) > 0 =>
                  IF k \in {"title", "description", "rights", "headline"} /\ Len(lis) = 1
                  THEN key \in DOMAIN xdecoded /\ xdecoded[key] = PyStr(Strip(texts[1]))
                  ELSE k \in DOMAIN xdecoded
                          /\ xdecoded[k] = PyList([i \in 1..Len(kept) |-> PyStr(kept[i])])


(***************************************************************************)
(* _read_xmp without an XMP library: the scan of the file's bytes          *)
(***************************************************************************)
MaxPieces == 4

\* b"<x:xmpmeta" and b"</x:xmpmeta>"
StartMarker == <<60, 120, 58, 120, 109, 112, 109, 101, 116, 97>>
EndMarker == <<60, 47, 120, 58, 120, 109, 112, 109, 101, 116, 97, 62>>

\* data.find(pat, start): the least index (from 0) at or after start where
\* pat occurs in data, -1 when there is none.
BytesFind(data, pat, start) ==
    LET at == {i \in start..(Len(data) - Len(pat)) :
                  SubSeq(data, i + 1, i + Len(pat)) = pat}
    IN IF at = {} THEN -1 ELSE CHOOSE i \in at : \A j \in at : i <= j

\* The files of the check: up to MaxPieces pieces, each a start tag
\* "<x:xmpmeta>", an end tag "</x:xmpmeta>" or the byte "a".
ScanFiles ==
    LET Pieces == {StartMarker \o <<62>>, EndMarker, <<97>>}
    IN UNION {{Flatten(f) : f \in [1..n -> Pieces]} : n \in 0..MaxPieces}

\* The byte scan: the packet data[start:end+12], or None when the
\* condition `start != -1 and end != -1 and end > start` fails.
ScanPacket(data) ==
    LET start == BytesFind(data, StartMarker, 0)
        end == BytesFind(data, EndMarker, 0)
    IN IF start # -1 /\ end # -1 /\ end > start
       THEN PyBytes(SubSeq(data, start + 1, end + 12))
       ELSE PyNone

\* What the scan branch returns: nothing without a packet; the packets of
\* ScanFiles bind no namespace to the prefix x, so ET.fromstring raises and
\* the map is {'xmp_raw': packet_str[:500]}.
ScanResult(data) ==
    LET packet == ScanPacket(data)
        packet_str == Utf8DecodeReplace(packet.b)
        head == SubSeq(packet_str, 1, IF Len(packet_str) < 500 THEN Len(packet_str) ELSE 500)
    IN IF packet = PyNone THEN PyDict(<< >>)
       ELSE _normalize_metadata_dict(PyDict(<< <<PyStr(<<120, 109, 112, 95, 114, 97, 119>>), PyStr(head)>> >>))

InitScan ==
    /\ nv \in {PyBytes(d) : d \in ScanFiles}
    /\ nout = PyNone
    /\ nout2 = PyNone
    /\ npc = "file"
    /\ SvcIdle
    /\ EncIdle
    /\ XmpIdle
    /\ TplIdle
    /\ BatchIdle

\* _read_xmp from `data = Path(file_path).read_bytes()` to its return.
ScanXmp ==
    /\ npc = "file"
    /\ nout2' = ScanPacket(nv.b)
    /\ nout' = ScanResult(nv.b)
    /\ npc' = "scanned"
    /\ UNCHANGED <<nv, svcVars, encVars, xmpVars, tplVars, batchVars>>

NextScan == ScanXmp

SpecScan == InitScan /\ [][NextScan]_vars

\* C27: the packet of the byte scan runs from the first '<x:xmpmeta' through
\* the end of the first '</x:xmpmeta>' at or after that start marker; the
\* result is empty only when the file has no start marker or no end marker
\* at or after it, so an end marker before the first start marker hides no
\* later end marker.
C27_PacketFromFirstStartToNextEnd ==
    npc = "scanned" =>
        LET data == nv.b
            first == BytesFind(data, StartMarker, 0)
            after == IF first = -1 THEN -1 ELSE BytesFind(data, EndMarker, first)
        IN IF first = -1 \/ after = -1
           THEN nout2 = PyNone /\ nout = PyDict(<< >>)
           ELSE nout2 = PyBytes(SubSeq(data, first + 1, after + 12)) /\ nout # PyDict(<< >>)


(***************************************************************************)
(* MainFrame: the batch loops of on_apply_metadata and                     *)
(* on_delete_all_metadata over the file queue                              *)
(***************************************************************************)
MaxQueue == 3

QueueFiles == {"a.jpg", "b.jpg", "c.jpg"}

\* The queues the frame can hold: no path twice (on_add_photos and
\* OnDropFiles append a path only when it is not there yet).
Queues ==
    {q \in UNION {[1..n -> QueueFiles] : n \in 0..MaxQueue} :
        \A i \in 1..Len(q), j \in 1..Len(q) : i # j => q[i] # q[j]}

InitBatch ==
    /\ file_queue \in Queues
    /\ snapshot = << >>
    /\ queue0 = << >>
    /\ idx = 0
    /\ bcur = "none"
    /\ handled = << >>
    /\ cancel = FALSE
    /\ bop = "none"
    /\ bpc = "idle"
    /\ SvcIdle
    /\ NormIdle
    /\ EncIdle
    /\ XmpIdle
    /\ TplIdle

\* The list the for statement iterates: enumerate(list(self.file_queue)),
\* a copy made when the loop begins.
IterListMutantLive(copy, queue) == queue

IterList(copy, queue) == copy

\* The handlers up to the loop: nothing is done for an empty queue or when
\* the confirmation is declined; otherwise the loop begins over a copy of
\* the queue.
StartBatch(op, confirmed) ==
    /\ bpc = "idle"
    /\ bop' = op
    /\ IF file_queue = << >> \/ ~confirmed
       THEN /\ bpc' = "done"
            /\ UNCHANGED <<snapshot, queue0>>
       ELSE /\ bpc' = "loop"
            /\ snapshot' = file_queue
            /\ queue0' = file_queue
    /\ UNCHANGED <<file_queue, idx, bcur, handled, cancel>>
    /\ UNCHANGED <<svcVars, normVars, encVars, xmpVars, tplVars>>

on_apply_metadata == \E confirmed \in BOOLEAN : StartBatch("apply", confirmed)

on_delete_all_metadata == \E confirmed \in BOOLEAN : StartBatch("delete", confirmed)

\* Events dispatched by wx.YieldIfNeeded() and by prog.Update between two
\* handler calls: a photo removed from the queue, a photo added to it.
on_remove_photo ==
    /\ bpc = "loop"
    /\ \E sel \in 1..Len(file_queue) :
          file_queue' = [i \in 1..(Len(file_queue) - 1) |->
                            IF i < sel THEN file_queue[i] ELSE file_queue[i + 1]]
    /\ UNCHANGED <<snapshot, queue0, idx, bcur, handled, cancel, bop, bpc>>
    /\ UNCHANGED <<svcVars, normVars, encVars, xmpVars, tplVars>>

on_add_photos ==
    /\ bpc = "loop"
    /\ Len(file_queue) < MaxQueue
    /\ \E p \in QueueFiles :
          /\ \A i \in 1..Len(file_queue) : file_queue[i] # p
          /\ file_queue' = Append(file_queue, p)
    /\ UNCHANGED <<snapshot, queue0, idx, bcur, handled, cancel, bop, bpc>>
    /\ UNCHANGED <<svcVars, normVars, encVars, xmpVars, tplVars>>

\* The user presses Cancel in the progress dialog, between two handler
\* calls or while one is running.
PressCancel ==
    /\ bpc \in {"loop", "editing"}
    /\ ~cancel
    /\ cancel' = TRUE
    /\ UNCHANGED <<file_queue, snapshot, queue0, idx, bcur, handled, bop, bpc>>
    /\ UNCHANGED <<svcVars, normVars, encVars, xmpVars, tplVars>>

\* One iteration, first half: the next file of the list is handed to
\* edit_metadata or delete_all_metadata.
HandlerCall ==
    /\ bpc = "loop"
    /\ idx < Len(IterList(snapshot, file_queue))
    /\ bcur' = IterList(snapshot, file_queue)[idx + 1]
    /\ bpc' = "editing"
    /\ UNCHANGED <<file_queue, snapshot, queue0, idx, handled, cancel, bop>>
    /\ UNCHANGED <<svcVars, normVars, encVars, xmpVars, tplVars>>

\* One iteration, second half: the handler returns ok, the file is counted
\* as applied or failed, and keep_going = prog.Update(idx)[0] decides
\* whether the loop goes on; the loop also ends with the list.
HandlerReturn ==
    /\ bpc = "editing"
    /\ \E ok \in BOOLEAN : handled' = Append(handled, <<bop, bcur, ok>>)
    /\ idx' = idx + 1
    /\ bcur' = "none"
    /\ LET keep_going == ~cancel
       IN bpc' = IF ~keep_going \/ idx + 1 >= Len(IterList(snapshot, file_queue))
                 THEN "done" ELSE "loop"
    /\ UNCHANGED <<file_queue, snapshot, queue0, cancel, bop>>
    /\ UNCHANGED <<svcVars, normVars, encVars, xmpVars, tplVars>>

NextBatch ==
    \/ on_apply_metadata
    \/ on_delete_all_metadata
    \/ on_remove_photo
    \/ on_add_photos
    \/ PressCancel
    \/ HandlerCall
    \/ HandlerReturn

SpecBatch == InitBatch /\ [][NextBatch]_vars

C29_MemoryMatchesDisk ==
    /\ \A name \in tmem :
          /\ template_path(name) \in DOMAIN tfiles
          /\ \E i \in 1..Len(list_templates_of(tfiles)) : list_templates_of(tfiles)[i] = name
    /\ (tret.op = "create" /\ ~tret.ok) => tret.name \notin tmem \ tlive


(***************************************************************************)
(* MainFrame: the request an apply from the editor hands to edit_metadata  *)
(***************************************************************************)
\* collect_editor_metadata over the texts of the six controls: five
\* stripped texts and the list of the stripped non-empty parts of the tags
\* text split on ','.
collect_editor_metadata(tc) ==
    LET parts == StrippedNonEmpty(SplitEach(tc.tags, {44}))
    IN [k \in {"title", "subject", "tags", "comments", "authors", "copyright"} |->
          CASE k = "title" -> PyStr(Strip(tc.title))
            [] k = "subject" -> PyStr(Strip(tc.subject))
            [] k = "tags" -> PyList([i \in 1..Len(parts) |-> PyStr(parts[i])])
            [] k = "comments" -> PyStr(Strip(tc.comments))
            [] k = "authors" -> PyStr(Strip(tc.authors))
            [] OTHER -> PyStr(Strip(tc.copyright))]

\* The editor's controls: each empty or filled (the title with blanks
\* around its text, the tags with two entries).
EditorTexts ==
    [ title : {<< >>, <<32>> \o EditText.headline \o <<32>>},
      subject : {<< >>, EditText.subject},
      tags : {<< >>, <<97, 44, 32, 98>>},
      comments : {<< >>, EditText.description},
      authors : {<< >>, EditText.creator},
      copyright : {<< >>, EditText.rights} ]

InitGui ==
    /\ eexisting \in ExistingMaps
    /\ eupdates \in {collect_editor_metadata(tc) : tc \in EditorTexts}
    /\ edumped = << >>
    /\ epc = "ready"
    /\ SvcIdle
    /\ NormIdle
    /\ XmpIdle
    /\ TplIdle
    /\ BatchIdle

NextGui == Encode

SpecGui == InitGui /\ [][NextGui]_vars

\* C30: a request without purge_non_camera is handled exactly as one with
\* purge_non_camera true, and the editor's request never carries the flag:
\* an apply from the editor removes every existing 0th and Exif tag that is
\* neither in the camera allow-list nor a slot the edit fills, and the whole
\* 1st IFD.
C30_GuiApplyPurges ==
    epc = "dumped" =>
        /\ "purge_non_camera" \notin DOMAIN eupdates
        /\ edumped = BuildExif(eexisting, eupdates @@ ("purge_non_camera" :> PyBool(TRUE)))
        /\ \A tag \in DOMAIN eexisting["0th"] :
              tag \notin keep_0th /\ tag \notin DOMAIN Slots0th(eupdates)
                 => tag \notin DOMAIN edumped["0th"]
        /\ \A tag \in DOMAIN eexisting["Exif"] :
              tag \notin keep_exif /\ tag \notin DOMAIN SlotsExif(eupdates)
                 => tag \notin DOMAIN edumped["Exif"]
        /\ edumped["1st"] = EmptyIfd
        /\ edumped["thumbnail"] = PyNone

\* An apply with a title and nothing else on a file with Software,
\* ImageDescription, MakerNote and a thumbnail IFD: Software, MakerNote and
\* the 1st IFD are gone, ImageDescription holds the title.
C30_Witness ==
    /\ epc = "dumped"
    /\ eupdates["title"] = PyStr(EditText.headline)
    /\ eupdates["comments"] = EmptyStr
    /\ {OtherTag.Software, ImageDescription} \subseteq DOMAIN eexisting["0th"]
    /\ OtherTag.MakerNote \in DOMAIN eexisting["Exif"]
    /\ eexisting["1st"] # EmptyIfd
    /\ OtherTag.Software \notin DOMAIN edumped["0th"]
    /\ edumped["0th"][ImageDescription] = PyBytes(ExpectedBytes.headline)
    /\ OtherTag.MakerNote \notin DOMAIN edumped["Exif"]
    /\ edumped["1st"] = EmptyIfd

=============================================================================
